---------------------------- MODULE Spec2Model ----------------------------
(***************************************************************************)
(* Model of the SQS worker of news-analytics-api:                          *)
(*   app/lambda_worker_handler.py  (lambda_handler, process_single_message)*)
(*   app/services/redis_client.py  (RedisDeduplication batch operations)   *)
(*   app/services/normalizer.py    (ArticleNormalizer)                     *)
(*   app/models/article.py         (Article.generate_hash)                 *)
(*   app/services/s3_client.py     (S3Client raw / normalized writes)      *)
(*   app/services/news_fetcher.py  (NewsFetcher.fetch_articles)            *)
(*                                                                         *)
(* Strings that the code inspects character by character (titles) are      *)
(* sequences of one-character strings; URLs are sequences of the tokens    *)
(* <<scheme, host, path>>.  A JSON value that may be absent or null is a   *)
(* record [k |-> "absent" | "null" | "str", v |-> <<...>>].                *)
(* SHA-256 is taken to be collision free on the inputs of the model: a     *)
(* hash is the string that is hashed, kept as the pair                     *)
(* <<title part, url part>> of f"{title}|{url}".                           *)
(***************************************************************************)
EXTENDS Integers, Sequences, FiniteSets, TLC

(***************************************************************************)
(* Bounds of the model.                                                    *)
(***************************************************************************)
\* longest list of articles the provider returns for the query
MaxFetch == 2
\* SQS records delivered to the worker over a behaviour
MaxMessages == 2

(***************************************************************************)
(* JSON values                                                             *)
(***************************************************************************)
Absent == [k |-> "absent", v |-> <<>>]
Null == [k |-> "null", v |-> <<>>]
Str(s) == [k |-> "str", v |-> s]

\* dict.get(key, default) when the default is "": an absent key reads as "",
\* a key that is present with null reads as None
GetOrEmpty(x) == IF x.k = "absent" THEN Str(<<>>) ELSE x

\* Python truthiness of a value read with dict.get(key): None and "" are falsy
Truthy(x) == x.k = "str" /\ x.v # <<>>

(***************************************************************************)
(* str.lower() and str.strip()                                             *)
(***************************************************************************)
LowerChar(c) ==
    CASE c = "A" -> "a"
      [] c = "B" -> "b"
      [] c = "I" -> "i"
      [] c = "R" -> "r"
      [] OTHER -> c

Lower(s) == [i \in 1..Len(s) |-> LowerChar(s[i])]

RECURSIVE LStrip(_)
LStrip(s) == IF s # <<>> /\ Head(s) = " " THEN LStrip(Tail(s)) ELSE s

RECURSIVE RStrip(_)
RStrip(s) ==
    IF s # <<>> /\ s[Len(s)] = " " THEN RStrip(SubSeq(s, 1, Len(s) - 1)) ELSE s

Strip(s) == RStrip(LStrip(s))

\* the provider's sentinel for a withdrawn article, lower-cased
Removed == <<"[", "r", "e", "m", "o", "v", "e", "d", "]">>


(***************************************************************************)
(* Raw records of the provider (NewsAPI "articles" entries)                *)
(***************************************************************************)
\* the "source" object of a raw record: absent, null or {id, name}
NoSource == [k |-> "absent", name |-> Absent, id |-> Absent]
Source(name, id) == [k |-> "obj", name |-> name, id |-> id]

Raw(title, url, publishedAt, description, source) ==
    [title |-> title, url |-> url, publishedAt |-> publishedAt,
     description |-> description, source |-> source]

IsoDate == <<"2026-02-06T14:30:52Z">>
BadDate == <<"yesterday">>
\* dateutil.parser.isoparse accepts exactly the ISO-8601 strings
IsoParsable(s) == s = IsoDate

UrlA == <<"https://", "ex.com", "/a">>
UrlB == <<"https://", "ex.com", "/b">>
\* an absolute URL with an upper-case host and no path
UrlRoot == <<"https://", "EX.com", "">>
Bbc == Source(Str(<<"BBC News">>), Str(<<"bbc-news">>))

\* a well-formed record
RecA == Raw(Str(<<"A">>), Str(UrlA), Str(IsoDate), Str(<<"d">>), Bbc)
\* a record the Normalizer rejects: no publication timestamp
RecNoDate == Raw(Str(<<"c">>), Str(UrlA), Absent, Str(<<"d">>), Bbc)
\* a record whose title is JSON null
RecNullTitle == Raw(Null, Str(UrlB), Str(IsoDate), Str(<<"d">>), Bbc)

\* the records the provider may return to the worker
RawRecords == {RecA, RecNoDate, RecNullTitle}

\* the article of RecA as another outlet carries it: the title in another case
\* and with leading white space, no source object and no description
RecASyndicated == Raw(Str(<<" ", "a">>), Str(UrlA), Str(IsoDate), Absent, NoSource)
\* a well-formed record whose URL has an upper-case host and no path
RecRoot == Raw(Str(<<"A">>), Str(UrlRoot), Str(IsoDate), Str(<<"d">>), Bbc)
\* a record without a URL
RecNoUrl == Raw(Str(<<"B">>), Absent, Str(IsoDate), Str(<<"d">>), Bbc)

\* records that differ in the spelling of the title, in the URL and in the
\* provider metadata
RecordVariants == {RecA, RecASyndicated, RecRoot, RecNoUrl}

(***************************************************************************)
(* pydantic HttpUrl (app/models/article.py: url: HttpUrl)                  *)
(***************************************************************************)
LowerHost(h) == IF h = "EX.com" THEN "ex.com" ELSE h

\* the URL types accepted by HttpUrl: scheme http or https and a host
ValidHttpUrl(u) == Len(u) = 3 /\ u[1] \in {"http://", "https://"} /\ u[2] # ""

\* str(HttpUrl(u)): the host is lower-cased and an empty path becomes "/"
HttpUrlStr(u) == <<u[1], LowerHost(u[2]), IF u[3] = "" THEN "/" ELSE u[3]>>

(***************************************************************************)
(* The two hash computations                                               *)
(***************************************************************************)
\* str(url) of the value read with article.get("url", "")
UrlText(x) ==
    CASE x.k = "absent" -> <<>>
      [] x.k = "null" -> <<"None">>
      [] OTHER -> x.v

\* lambda_worker_handler.py 181-184: title.lower() raises on a null title
HashRaises(raw) == GetOrEmpty(raw.title).k = "null"

\* a hash that also covers the source object of the record
ArticleHashWithSource(raw) ==
    <<Strip(Lower(GetOrEmpty(raw.title).v)), UrlText(raw.url), raw.source>>

\* lambda_worker_handler.py 181-184: sha256(f"{title.lower().strip()}|{url}")[:16]
ArticleHash(raw) == <<Strip(Lower(GetOrEmpty(raw.title).v)), UrlText(raw.url)>>

\* Article.generate_hash: sha256(f"{title.lower().strip()}|{str(self.url)}")[:16]
generate_hash(title, url) == <<Strip(Lower(title)), HttpUrlStr(url)>>

(***************************************************************************)
(* ArticleNormalizer                                                       *)
(***************************************************************************)
\* the provider tag normalize_newsapi_article gives every Article
NewsApi == <<"n", "e", "w", "s", "a", "p", "i">>

TitleMaxLength == 500
DescriptionMaxLength == 2000

\* source_obj.get("name") or source_obj.get("id") or "unknown"
SourceName(src) ==
    IF Truthy(src.name) THEN src.name.v
    ELSE IF Truthy(src.id) THEN src.id.v ELSE <<"unknown">>

\* description: "[removed]" or empty after strip becomes None
Description(raw) ==
    LET d == Strip(GetOrEmpty(raw.description).v)
    IN  IF Lower(d) = Removed \/ d = <<>> THEN Null ELSE Str(d)

\* an exception inside normalize_newsapi_article (caught, the record is dropped):
\* .get on a null source, .strip() on a null title or description, or the
\* Article model refusing a field
NormalizeRaises(raw) ==
    \/ raw.source.k = "null"
    \/ GetOrEmpty(raw.title).k = "null"
    \/ GetOrEmpty(raw.description).k = "null"
    \/ ~ValidHttpUrl(raw.url.v)
    \/ Len(Strip(GetOrEmpty(raw.title).v)) > TitleMaxLength
    \/ (Description(raw).k = "str" /\ Len(Description(raw).v) > DescriptionMaxLength)

\* the validation rules, in the order of the code; "" when the record passes
RejectReason(raw) ==
    IF raw.source.k = "null" \/ GetOrEmpty(raw.title).k = "null" THEN "exception"
    ELSE IF Strip(GetOrEmpty(raw.title).v) = <<>>
            \/ Lower(Strip(GetOrEmpty(raw.title).v)) = Removed THEN "invalid_title"
    ELSE IF ~Truthy(raw.url) THEN "missing_url"
    ELSE IF ~Truthy(raw.publishedAt) THEN "missing_published_date"
    ELSE IF ~IsoParsable(raw.publishedAt.v) THEN "invalid_date_format"
    ELSE IF NormalizeRaises(raw) THEN "exception"
    ELSE ""

\* normalize_newsapi_article followed by model_dump() and str(url): the stored row
\* (<<>> for None)
normalize_newsapi_article(raw, topic) ==
    IF RejectReason(raw) # "" THEN <<>>
    ELSE LET title == Strip(raw.title.v)
         IN  << [source |-> NewsApi,
                 source_name |-> SourceName(raw.source),
                 title |-> title,
                 description |-> Description(raw),
                 url |-> HttpUrlStr(raw.url.v),
                 published_at |-> raw.publishedAt.v,
                 topic |-> topic,
                 article_hash |-> generate_hash(title, raw.url.v)] >>

\* a batch that stops at the first record it rejects
RECURSIVE normalize_batch_aborting(_, _)
normalize_batch_aborting(raws, topic) ==
    IF raws = <<>> \/ normalize_newsapi_article(Head(raws), topic) = <<>> THEN <<>>
    ELSE normalize_newsapi_article(Head(raws), topic)
         \o normalize_batch_aborting(Tail(raws), topic)

\* normalize_batch: the accepted records, in input order
RECURSIVE normalize_batch(_, _)
normalize_batch(raws, topic) ==
    IF raws = <<>> THEN <<>>
    ELSE normalize_newsapi_article(Head(raws), topic) \o normalize_batch(Tail(raws), topic)

(***************************************************************************)
(* Timestamps, queries and object keys (S3Client)                          *)
(***************************************************************************)
\* datetime.now() of the first run
T1 == [year |-> 2026, month |-> 2, day |-> 6, hour |-> 14, minute |-> 30, second |-> 52]
\* datetime.now() n seconds later (n stays below 8)
Later(ts, n) == [ts EXCEPT !.second = @ + n]

\* the query of the jobs
QueryAI == <<"A", "I">>
Queries == {QueryAI}

\* f"{n:02d}" and f"{n:04d}"
Pad2(n) == <<(n \div 10) % 10, n % 10>>
Pad4(n) == <<(n \div 1000) % 10, (n \div 100) % 10, (n \div 10) % 10, n % 10>>

IsAlnum(c) ==
    c \in {"a", "b", "c", "d", "e", "f", "g", "h", "i", "j", "k", "l", "m", "n", "o",
           "p", "q", "r", "s", "t", "u", "v", "w", "x", "y", "z",
           "0", "1", "2", "3", "4", "5", "6", "7", "8", "9"}

\* "".join(c if c.isalnum() else "_" for c in text.lower())
Sanitize(text) ==
    [i \in 1..Len(text) |-> IF IsAlnum(LowerChar(text[i])) THEN LowerChar(text[i]) ELSE "_"]

SafeQueryLength == 50

Take(s, n) == SubSeq(s, 1, IF Len(s) < n THEN Len(s) ELSE n)

\* raw/YYYY/MM/DD/HH/{safe_query}_{YYYYMMDD_HHMMSS}.json
_generate_raw_key(query, ts) ==
    [prefix |-> "raw", year |-> Pad4(ts.year), month |-> Pad2(ts.month),
     day |-> Pad2(ts.day), hour |-> Pad2(ts.hour),
     name |-> Take(Sanitize(query), SafeQueryLength),
     stamp |-> <<Pad4(ts.year), Pad2(ts.month), Pad2(ts.day),
                 Pad2(ts.hour), Pad2(ts.minute), Pad2(ts.second)>>]

\* a key with month and day not padded to two digits and one partition for all
\* the sources
_generate_normalized_key_flat(source, ts) ==
    [prefix |-> "normalized", year |-> Pad4(ts.year), month |-> <<ts.month>>,
     day |-> <<ts.day>>, source |-> <<>>,
     stamp |-> <<Pad2(ts.hour), Pad2(ts.minute), Pad2(ts.second)>>]

\* normalized/year=YYYY/month=MM/day=DD/source={safe_source}/articles_{HHMMSS}.parquet
_generate_normalized_key(source, ts) ==
    [prefix |-> "normalized", year |-> Pad4(ts.year), month |-> Pad2(ts.month),
     day |-> Pad2(ts.day), source |-> Sanitize(source),
     stamp |-> <<Pad2(ts.hour), Pad2(ts.minute), Pad2(ts.second)>>]

\* an object store: a function from keys to objects; put_object overwrites
Put(store, key, obj) ==
    [k \in DOMAIN store \cup {key} |-> IF k = key THEN obj ELSE store[k]]

EmptyStore == [k \in {} |-> 0]

\* the payload of store_raw_articles
RawPayload(articles, query, ts) ==
    [query |-> query, fetched_at |-> ts, article_count |-> Len(articles),
     articles |-> articles]

\* a grouping that puts every row into the object of every source
RowsOfSourceAll(rows, src) == rows

\* the sources of a list of rows, in order of first appearance
RECURSIVE SourcesOf(_)
SourcesOf(rows) ==
    IF rows = <<>> THEN <<>>
    ELSE LET rest == SourcesOf(SubSeq(rows, 1, Len(rows) - 1))
             src == rows[Len(rows)].source
         IN  IF \E i \in 1..Len(rest) : rest[i] = src THEN rest ELSE Append(rest, src)

RECURSIVE RowsOfSource(_, _)
RowsOfSource(rows, src) ==
    IF rows = <<>> THEN <<>>
    ELSE (IF Head(rows).source = src THEN <<Head(rows)>> ELSE <<>>)
         \o RowsOfSource(Tail(rows), src)

\* store_normalized_articles: one object per source; the first n groups are put
RECURSIVE PutGroups(_, _, _, _)
PutGroups(store, rows, ts, n) ==
    IF n = 0 THEN store
    ELSE LET src == SourcesOf(rows)[n]
         IN  Put(PutGroups(store, rows, ts, n - 1),
                 _generate_normalized_key(src, ts),
                 [source |-> src, article_count |-> Len(RowsOfSource(rows, src)),
                  processed_at |-> ts, rows |-> RowsOfSource(rows, src)])

\* the rows of the first n sources
RECURSIVE RowsOfGroups(_, _)
RowsOfGroups(rows, n) ==
    IF n = 0 THEN <<>>
    ELSE RowsOfGroups(rows, n - 1) \o RowsOfSource(rows, SourcesOf(rows)[n])

\* history of the normalized bucket: how often each article_hash was written
RECURSIVE LogRows(_, _)
LogRows(written, rows) ==
    IF rows = <<>> THEN written
    ELSE LET h == Head(rows).article_hash
             n == IF h \in DOMAIN written THEN written[h] ELSE 0
         IN  LogRows(Put(written, h, n + 1), Tail(rows))

(***************************************************************************)
(* RedisDeduplication: the cache is a function from stored keys to their   *)
(* time to live in seconds                                                 *)
(***************************************************************************)
TtlDays == 14
SecondsPerDay == 86400
ttl_seconds == TtlDays * SecondsPerDay

Range(s) == {s[i] : i \in 1..Len(s)}

\* a check that never looks into the store
batch_check_exists_blind(store, hashes, fails) ==
    [i \in 1..Len(hashes) |-> FALSE]

\* a check whose answer lacks the flag of the last hash
batch_check_exists_short(store, hashes, fails) ==
    IF hashes = <<>> THEN <<>>
    ELSE [i \in 1..(Len(hashes) - 1) |-> ~fails /\ hashes[i] \in DOMAIN store]

\* a fail-closed check: a failed request reports every hash as existing
batch_check_exists_fail_closed(store, hashes, fails) ==
    IF hashes = <<>> THEN <<>>
    ELSE IF fails THEN [i \in 1..Len(hashes) |-> TRUE]
    ELSE [i \in 1..Len(hashes) |-> hashes[i] \in DOMAIN store]

\* batch_check_exists: one EXISTS per hash; any failure of the request gives all False
batch_check_exists(store, hashes, fails) ==
    IF hashes = <<>> THEN <<>>
    ELSE IF fails THEN [i \in 1..Len(hashes) |-> FALSE]
    ELSE [i \in 1..Len(hashes) |-> hashes[i] \in DOMAIN store]

\* what TTL reports for a key stored without an expiry
NoExpiry == 0 - 1

\* the cache after a pipeline of plain SET commands
SetWithoutExpiry(store, hashes) ==
    [k \in DOMAIN store \cup Range(hashes) |->
        IF k \in Range(hashes) THEN NoExpiry ELSE store[k]]

\* the cache after the pipeline of SETEX commands of batch_mark_processed
Setex(store, hashes) ==
    [k \in DOMAIN store \cup Range(hashes) |->
        IF k \in Range(hashes) THEN ttl_seconds ELSE store[k]]

\* a mark that sends no SETEX
MarkedCacheDropped(store, hashes, fails) == store

\* batch_mark_processed: the cache after the call
MarkedCache(store, hashes, fails) ==
    IF hashes = <<>> \/ fails THEN store ELSE Setex(store, hashes)

\* mark_article_processed: the cache after the single SETEX of one hash
mark_article_processed(store, hash, fails) ==
    IF fails THEN store ELSE Setex(store, <<hash>>)

\* batch_mark_processed: the returned count of "OK" results
batch_mark_processed(hashes, fails) ==
    IF hashes = <<>> \/ fails THEN 0 ELSE Len(hashes)

(***************************************************************************)
(* State                                                                   *)
(***************************************************************************)
\* the Lambda containers that may run the worker
Workers == {1, 2}

VARIABLES
    env,        \* the environment of the process: is Redis / S3 configured
    provider,   \* the articles the provider currently returns for the query
    cache,      \* the Redis store: hash -> time to live
    rawStore,   \* the raw bucket: key -> object
    normStore,  \* the normalized bucket: key -> object
    delivered,  \* SQS records delivered so far
    handler,    \* per worker: the frame of lambda_handler
    run,        \* per worker: the frame of process_single_message
    prev,       \* per worker: what the last finished run did
    now,        \* the wall clock: the start time of the latest run
    hist,       \* history: the writes to the normalized bucket, the cache faults
    athena,     \* the frame of AthenaService.execute_query
    api,        \* the quota counter and the last request of the ingest endpoints
    s3call      \* the frame of a call of S3Client.store_normalized_articles

vars == <<env, provider, cache, rawStore, normStore, delivered, handler, run, prev, now,
          hist, athena, api, s3call>>

\* no call of store_normalized_articles on its own
NoCall ==
    [pc |-> "idle", articles |-> <<>>,
     result |-> [status |-> "", files_written |-> 0, total_articles |-> 0,
                 sources |-> <<>>]]

\* no request yet: the quota tracker as constructed (requests_today = 0)
NoApi ==
    [pc |-> "idle", endpoint |-> "", query |-> Absent, limit |-> Absent,
     status_code |-> 0, count |-> 0, requests_today |-> 0,
     rateLimited |-> FALSE, response |-> "", fetched |-> FALSE, sent |-> FALSE,
     \* the quota call of the request: made, on a new day, allowed
     quotaCall |-> FALSE, newDay |-> FALSE, allowed |-> FALSE,
     \* history: the fetches of the synchronous endpoint since the last reset
     fetchesToday |-> 0]

\* the frame of execute_query before a call
NoQuery ==
    [pc |-> "idle", max_wait_seconds |-> 0, poll_interval |-> 0, elapsed |-> 0,
     current_interval |-> 0, status |-> "", pages |-> 0, outcome |-> ""]

\* all lists over S of length at most n
SeqsUpTo(S, n) == UNION {[1..m -> S] : m \in 0..n}

NoResult ==
    [status |-> "none", query |-> <<>>, fetched |-> 0, duplicates |-> 0,
     new_articles |-> 0, stored |-> 0, message |-> "", storage_saved_bytes |-> 0]

\* the frame of process_single_message before any run
NoRun ==
    [stage |-> "none", query |-> <<>>, limit |-> 0, start_time |-> T1,
     redis |-> FALSE, s3 |-> FALSE,
     raw_articles |-> <<>>, article_hashes |-> <<>>, exists_list |-> <<>>,
     new_articles |-> <<>>, new_hashes |-> <<>>, duplicate_count |-> 0,
     normalized_articles |-> <<>>, result |-> NoResult,
     \* what the run has done so far
     fetched |-> FALSE, fetchRequests |-> 0, response |-> "",
     checkCalls |-> 0, checkFailed |-> FALSE,
     rawWrites |-> 0, normAttempts |-> 0, normWrites |-> 0, normPuts |-> 0,
     markCalls |-> 0, markArg |-> <<>>, markFailed |-> FALSE,
     raisedAt |-> "", cacheAtStart |-> EmptyStore]

\* what is remembered of a finished run: how it ended, what it fetched, what it
\* reported, and how its cache calls went
Summary(r) ==
    [stage |-> r.stage, raw_articles |-> r.raw_articles,
     new_articles |-> r.result.new_articles,
     \* the cache was configured and empty, and the check request was answered
     emptyCacheChecked |-> r.redis /\ r.cacheAtStart = EmptyStore
                           /\ r.checkCalls = 1 /\ ~r.checkFailed,
     \* the mark request was made and answered
     marked |-> r.markCalls = 1 /\ ~r.markFailed,
     \* the mark request was made and failed
     markFailed |-> r.markCalls = 1 /\ r.markFailed]

NoSummary ==
    [stage |-> "none", raw_articles |-> <<>>, new_articles |-> 0,
     emptyCacheChecked |-> FALSE, marked |-> FALSE, markFailed |-> FALSE]

NoResponse == [k |-> "none", statusCode |-> 0, batchItemFailures |-> <<>>]

IdleHandler ==
    [pc |-> "idle", records |-> <<>>, i |-> 1, batch_item_failures |-> <<>>,
     response |-> NoResponse,
     \* how the processing of each record read so far ended: "returned", "raised"
     outcomes |-> <<>>]

\* the bodies of SQS records: a string that is no JSON, or an ingestion request
\* (the provider returns a prefix of its list, so the limit varies the result:
\* one article, or the whole list)
Limits == {1, MaxFetch}
InvalidBody == [k |-> "invalid", query |-> <<>>, limit |-> 0]
Request(q, l) == [k |-> "json", query |-> q, limit |-> l]
Bodies == {InvalidBody} \cup {Request(q, l) : q \in Queries, l \in Limits}

Init ==
    /\ env \in [use_redis : BOOLEAN, use_s3 : BOOLEAN]
    /\ provider \in [1..MaxFetch -> RawRecords] \cup {<<>>}
    /\ cache = EmptyStore
    /\ rawStore = EmptyStore
    /\ normStore = EmptyStore
    \* two records are left to deliver: a job and the job after it
    /\ delivered = MaxMessages - 2
    /\ handler = [w \in Workers |-> IdleHandler]
    /\ run = [w \in Workers |-> NoRun]
    /\ prev = [w \in Workers |-> NoSummary]
    /\ now = T1
    /\ hist = [written |-> EmptyStore, cacheFault |-> FALSE]
    /\ athena = NoQuery
    /\ api = NoApi
    /\ s3call = NoCall

(***************************************************************************)
(* process_single_message: the steps between two awaits                    *)
(***************************************************************************)
PageSizeMax == 100

Min(a, b) == IF a < b THEN a ELSE b

\* fetch_articles: the provider returns at most pageSize = min(limit, 100) articles
FetchedArticles(articles, limit) == Take(articles, Min(limit, PageSizeMax))

\* lines 199-211, zip(raw_articles, article_hashes, exists_list): the entries
\* among the first n whose exists flag is False
RECURSIVE KeepNew(_, _, _)
KeepNew(items, exists, n) ==
    IF n = 0 THEN <<>>
    ELSE KeepNew(items, exists, n - 1) \o (IF exists[n] THEN <<>> ELSE <<items[n]>>)

\* a count that takes every checked record for a duplicate
CountDuplicatesAll(exists, n) == n

\* lines 199-202: the number of entries among the first n whose flag is True
RECURSIVE CountDuplicates(_, _)
CountDuplicates(exists, n) ==
    IF n = 0 THEN 0
    ELSE CountDuplicates(exists, n - 1) + (IF exists[n] THEN 1 ELSE 0)

\* an except clause that starts the job again
OnExceptionRetrying(r, at) == [r EXCEPT !.stage = "fetch", !.raisedAt = at]

\* an except clause that logs and falls through to the marking step
OnExceptionSwallowed(r, at) == [r EXCEPT !.stage = "mark", !.raisedAt = at]

\* lines 325-333: the except clause logs and re-raises
OnException(r, at) == [r EXCEPT !.stage = "raised", !.raisedAt = at]

\* lines 161-171
ZeroResult(r) ==
    [NoResult EXCEPT !.status = "success", !.query = r.query,
                     !.message = "No articles found for query"]

\* lines 229-239
AllDuplicatesResult(r, total, dups) ==
    [NoResult EXCEPT !.status = "success", !.query = r.query, !.fetched = total,
                     !.duplicates = dups,
                     !.message = "All articles were duplicates (already processed)"]

\* lines 306-319
FullResult(r) ==
    [status |-> "success", query |-> r.query, fetched |-> Len(r.raw_articles),
     duplicates |-> r.duplicate_count, new_articles |-> Len(r.new_articles),
     stored |-> Len(r.normalized_articles), message |-> "",
     storage_saved_bytes |-> r.duplicate_count * 2000]

\* no zero-result exit
IsZeroFetchNever(raws) == FALSE

\* line 161: the zero-result exit is taken
IsZeroFetch(raws) == Len(raws) = 0

\* a run that goes to the check with only the first record hashed
AfterFetchFirstHashOnly(r, raws) ==
    IF Len(raws) = 0
    THEN [r EXCEPT !.fetched = TRUE, !.stage = "returned", !.result = ZeroResult(r)]
    ELSE IF HashRaises(raws[1])
    THEN OnException([r EXCEPT !.fetched = TRUE, !.raw_articles = raws], "hash")
    ELSE [r EXCEPT !.fetched = TRUE, !.stage = "check", !.raw_articles = raws,
                   !.article_hashes = <<ArticleHash(raws[1])>>]

\* lines 146-185 once the provider has answered with raws
AfterFetch(r, raws) ==
    IF IsZeroFetch(raws)
    THEN [r EXCEPT !.fetched = TRUE, !.stage = "returned", !.result = ZeroResult(r)]
    ELSE IF \E i \in 1..Len(raws) : HashRaises(raws[i])
    THEN OnException([r EXCEPT !.fetched = TRUE, !.raw_articles = raws], "hash")
    ELSE [r EXCEPT !.fetched = TRUE, !.stage = "check", !.raw_articles = raws,
                   !.article_hashes = [i \in 1..Len(raws) |-> ArticleHash(raws[i])]]

\* what the one GET request of fetch_articles may meet: a 2xx answer with status
\* "ok", a 2xx answer with another status, a non-2xx answer, no answer
Responses == {"ok", "status_error", "http_error", "network_error"}

\* a fetch that takes an answer whose status is not "ok" for an empty result
fetch_articles_lenient(response, articles, limit) ==
    IF response \in {"ok", "status_error"}
    THEN [k |-> "data",
          articles |-> IF response = "ok" THEN FetchedArticles(articles, limit) ELSE <<>>]
    ELSE [k |-> "NewsAPIError", articles |-> <<>>]

\* fetch_articles: the data of an "ok" answer, NewsAPIError for anything else
fetch_articles(response, articles, limit) ==
    IF response = "ok"
    THEN [k |-> "data", articles |-> FetchedArticles(articles, limit)]
    ELSE [k |-> "NewsAPIError", articles |-> <<>>]

\* Step 1 and 2: fetch, and hash every record
Fetch(w) ==
    /\ run[w].stage = "fetch"
    /\ \E response \in Responses :
         LET out == fetch_articles(response, provider, run[w].limit)
             r == [run[w] EXCEPT !.fetchRequests = @ + 1, !.response = response]
         IN  run' = [run EXCEPT ![w] =
                       IF out.k = "NewsAPIError" THEN OnException(r, "fetch")
                       ELSE AfterFetch(r, out.articles)]
    /\ UNCHANGED <<s3call, api, athena, env, provider, cache, rawStore, normStore, delivered, handler, prev, now, hist>>

\* no all-duplicate exit
IsAllDuplicatesNever(news) == FALSE

\* line 229: the all-duplicate exit is taken
IsAllDuplicates(news) == Len(news) = 0

\* lines 187-256 once the existence flags are known
AfterCheck(r, exists, called, failed) ==
    LET n == Min(Len(r.raw_articles), Len(exists))
        news == KeepNew(r.raw_articles, exists, n)
        dups == CountDuplicates(exists, n)
        r1 == [r EXCEPT !.exists_list = exists,
                        !.new_articles = news,
                        !.new_hashes = KeepNew(r.article_hashes, exists, n),
                        !.duplicate_count = dups,
                        !.checkCalls = @ + (IF called THEN 1 ELSE 0),
                        !.checkFailed = failed]
    IN  IF IsAllDuplicates(news)
        THEN [r1 EXCEPT !.stage = "returned",
                        !.result = AllDuplicatesResult(r, Len(r.raw_articles), dups)]
        ELSE [r1 EXCEPT !.stage = "store_raw",
                        !.normalized_articles = normalize_batch(news, r.query)]

\* Step 3, 4 and 5: the batched existence check, the filter, the normalization
Check(w) ==
    /\ run[w].stage = "check"
    /\ IF run[w].redis
       THEN \E fails \in BOOLEAN :
              /\ run' = [run EXCEPT ![w] =
                        AfterCheck(run[w],
                                   batch_check_exists(cache, run[w].article_hashes, fails),
                                   TRUE, fails)]
              /\ hist' = [hist EXCEPT !.cacheFault = @ \/ fails]
       ELSE /\ run' = [run EXCEPT ![w] =
                      AfterCheck(run[w], [i \in 1..Len(run[w].raw_articles) |-> FALSE],
                                 FALSE, FALSE)]
            /\ UNCHANGED hist
    /\ UNCHANGED <<s3call, api, athena, env, provider, cache, rawStore, normStore, delivered, handler, prev, now>>

\* an audit write of the new records only
AuditRecordsNewOnly(r) == r.new_articles

\* line 263: the records handed to store_raw_articles
AuditRecords(r) == r.raw_articles

\* Step 6: the raw write of every fetched record; put_object may raise
StoreRaw(w) ==
    /\ run[w].stage = "store_raw"
    /\ IF run[w].s3
       THEN \/ /\ rawStore' = Put(rawStore,
                                  _generate_raw_key(run[w].query, run[w].start_time),
                                  RawPayload(AuditRecords(run[w]), run[w].query,
                                             run[w].start_time))
               /\ run' = [run EXCEPT ![w].stage = "store_normalized",
                                     ![w].rawWrites = @ + 1]
            \/ /\ run' = [run EXCEPT ![w] = OnException(run[w], "store_raw")]
               /\ UNCHANGED rawStore
       ELSE /\ run' = [run EXCEPT ![w].stage = "store_normalized"]
            /\ UNCHANGED rawStore
    /\ UNCHANGED <<s3call, api, athena, env, provider, cache, normStore, delivered, handler, prev, now, hist>>

\* Step 7: the normalized write, one object per source; a put_object may raise
\* after the objects of the sources before it were written
StoreNormalized(w) ==
    /\ run[w].stage = "store_normalized"
    /\ LET rows == run[w].normalized_articles
           groups == Len(SourcesOf(rows))
       IN  IF run[w].s3
           THEN \/ /\ normStore' = PutGroups(normStore, rows, run[w].start_time, groups)
                   /\ hist' = [hist EXCEPT !.written = LogRows(@, RowsOfGroups(rows, groups))]
                   /\ run' = [run EXCEPT ![w].stage = "mark",
                                         ![w].normAttempts = @ + 1,
                                         ![w].normWrites = @ + 1,
                                         ![w].normPuts = @ + groups]
                \/ \E done \in 0..(groups - 1) :
                   /\ normStore' = PutGroups(normStore, rows, run[w].start_time, done)
                   /\ hist' = [hist EXCEPT !.written = LogRows(@, RowsOfGroups(rows, done))]
                   /\ run' = [run EXCEPT ![w] =
                                OnException([run[w] EXCEPT !.normAttempts = @ + 1,
                                                           !.normPuts = @ + done],
                                            "store_normalized")]
           ELSE /\ run' = [run EXCEPT ![w].stage = "mark"]
                /\ UNCHANGED <<normStore, hist>>
    /\ UNCHANGED <<s3call, api, athena, env, provider, cache, rawStore, delivered, handler, prev, now>>

\* a mark call with the hash of every fetched record
HashesToMarkAll(r) == r.article_hashes

\* line 292: the hashes handed to batch_mark_processed
HashesToMark(r) == r.new_hashes

\* a mark step that lets the failure of the request out of the run
AfterMarkRaising(r, called, fails) ==
    IF called /\ fails
    THEN OnException([r EXCEPT !.markCalls = @ + 1, !.markArg = HashesToMark(r),
                               !.markFailed = TRUE], "mark")
    ELSE [r EXCEPT !.stage = "returned",
                   !.markCalls = @ + (IF called THEN 1 ELSE 0),
                   !.markArg = IF called THEN HashesToMark(r) ELSE @,
                   !.result = FullResult(r)]

\* lines 288-323 once batch_mark_processed has returned (it never raises): the
\* metrics do not depend on the count it returned
AfterMark(r, called, fails) ==
    [r EXCEPT !.stage = "returned",
              !.markCalls = @ + (IF called THEN 1 ELSE 0),
              !.markArg = IF called THEN HashesToMark(r) ELSE @,
              !.markFailed = called /\ fails,
              !.result = FullResult(r)]

\* Step 8 and 9: mark the new hashes, return the metrics
Mark(w) ==
    /\ run[w].stage = "mark"
    /\ IF run[w].redis /\ HashesToMark(run[w]) # <<>>
       THEN \E fails \in BOOLEAN :
              /\ cache' = MarkedCache(cache, HashesToMark(run[w]), fails)
              /\ hist' = [hist EXCEPT !.cacheFault = @ \/ fails]
              /\ run' = [run EXCEPT ![w] = AfterMark(run[w], TRUE, fails)]
       ELSE /\ run' = [run EXCEPT ![w] = AfterMark(run[w], FALSE, FALSE)]
            /\ UNCHANGED <<cache, hist>>
    /\ UNCHANGED <<s3call, api, athena, env, provider, rawStore, normStore, delivered, handler, prev, now>>

(***************************************************************************)
(* lambda_handler                                                          *)
(***************************************************************************)
\* an except clause that reports nothing
OnMessageErrorDropped(failures, messageId) == failures

\* lines 403-420: a record whose processing raised is reported
OnMessageError(failures, messageId) == Append(failures, messageId)

\* lines 424-442: the response of the batch
BatchResponse(failures) ==
    IF failures # <<>>
    THEN [k |-> "partial_failure", statusCode |-> 0, batchItemFailures |-> failures]
    ELSE [k |-> "Batch processed successfully", statusCode |-> 200,
          batchItemFailures |-> <<>>]

\* lines 370-372
NoMessagesResponse ==
    [k |-> "No messages to process", statusCode |-> 200, batchItemFailures |-> <<>>]

\* a frame that takes the cache to be configured whatever the environment says
NewRunWithRedis(body, ts) ==
    [NoRun EXCEPT !.stage = "fetch", !.query = body.query, !.limit = body.limit,
                  !.start_time = ts, !.redis = TRUE, !.s3 = env.use_s3,
                  !.cacheAtStart = cache]

\* lines 96-140: a fresh frame for the request of a record
NewRun(body, ts) ==
    [NoRun EXCEPT !.stage = "fetch", !.query = body.query, !.limit = body.limit,
                  !.start_time = ts, !.redis = env.use_redis, !.s3 = env.use_s3,
                  !.cacheAtStart = cache]

\* SQS invokes the handler with a batch of n records (lines 359-377); the
\* records are numbered in the order of their delivery, and the body of a
\* record is drawn when the loop reads it
Invoke(w) ==
    /\ handler[w].pc = "idle"
    /\ \E n \in 0..(MaxMessages - delivered) :
         /\ delivered' = delivered + n
         /\ handler' = [handler EXCEPT ![w] =
              IF n = 0
              THEN [IdleHandler EXCEPT !.response = NoMessagesResponse]
              ELSE [IdleHandler EXCEPT
                      !.pc = "loop",
                      !.records = [j \in 1..n |-> [messageId |-> delivered + j]]]]
    /\ UNCHANGED <<s3call, api, athena, env, provider, cache, rawStore, normStore, run, prev, now, hist>>

\* datetime.now() at the start of a run: the second of the latest run or, once
\* a run has been made, the second after it
Clock == IF \A w \in Workers : prev[w].stage = "none" THEN {now} ELSE {now, Later(now, 1)}

\* the loop body up to the first await (lines 379-395): json.loads of the body,
\* then the start of process_single_message
ProcessRecord(w) ==
    /\ handler[w].pc = "loop"
    /\ handler[w].i <= Len(handler[w].records)
    /\ \E body \in Bodies :
       LET record == handler[w].records[handler[w].i]
       IN  IF body.k = "invalid"
           THEN /\ handler' = [handler EXCEPT
                     ![w].batch_item_failures =
                         OnMessageError(handler[w].batch_item_failures, record.messageId),
                     ![w].outcomes = Append(@, "raised"),
                     ![w].i = @ + 1]
                /\ UNCHANGED <<run, now>>
           ELSE /\ \E ts \in Clock :
                     /\ run' = [run EXCEPT ![w] = NewRun(body, ts)]
                     /\ now' = ts
                /\ handler' = [handler EXCEPT ![w].pc = "running"]
    /\ UNCHANGED <<s3call, api, athena, env, provider, cache, rawStore, normStore, delivered, prev, hist>>

\* asyncio.run returned or raised (lines 397-420)
AfterMessage(w) ==
    /\ handler[w].pc = "running"
    /\ run[w].stage \in {"returned", "raised"}
    /\ LET record == handler[w].records[handler[w].i]
       IN  handler' = [handler EXCEPT
              ![w].pc = "loop",
              ![w].i = @ + 1,
              ![w].outcomes = Append(@, run[w].stage),
              ![w].batch_item_failures =
                  IF run[w].stage = "raised"
                  THEN OnMessageError(@, record.messageId) ELSE @]
    /\ run' = [run EXCEPT ![w] = NoRun]
    /\ prev' = [prev EXCEPT ![w] = Summary(run[w])]
    /\ UNCHANGED <<s3call, api, athena, env, provider, cache, rawStore, normStore, delivered, now, hist>>

\* the end of the loop (lines 422-442)
ReturnBatch(w) ==
    /\ handler[w].pc = "loop"
    /\ handler[w].i > Len(handler[w].records)
    /\ handler' = [handler EXCEPT
          ![w].pc = "idle",
          ![w].response = BatchResponse(handler[w].batch_item_failures)]
    /\ UNCHANGED <<s3call, api, athena, env, provider, cache, rawStore, normStore, delivered, run, prev, now,
                   hist>>

(***************************************************************************)
(* Specification: one worker, its jobs one after the other                 *)
(***************************************************************************)
Step(w) ==
    \/ Invoke(w)
    \/ ProcessRecord(w)
    \/ Fetch(w)
    \/ Check(w)
    \/ StoreRaw(w)
    \/ StoreNormalized(w)
    \/ Mark(w)
    \/ AfterMessage(w)
    \/ ReturnBatch(w)

Next == Step(1)

Spec == Init /\ [][Next]_vars

(***************************************************************************)
(* Specification: one worker with the cache and the storage configured,    *)
(* over the variants of the records                                        *)
(***************************************************************************)
InitRecords ==
    /\ env = [use_redis |-> TRUE, use_s3 |-> TRUE]
    /\ provider \in [1..MaxFetch -> RecordVariants]
    /\ cache = EmptyStore
    /\ rawStore = EmptyStore
    /\ normStore = EmptyStore
    \* one record is left to deliver
    /\ delivered = MaxMessages - 1
    /\ handler = [w \in Workers |-> IdleHandler]
    /\ run = [w \in Workers |-> NoRun]
    /\ prev = [w \in Workers |-> NoSummary]
    /\ now = T1
    /\ hist = [written |-> EmptyStore, cacheFault |-> FALSE]
    /\ athena = NoQuery
    /\ api = NoApi
    /\ s3call = NoCall

\* one job of Spec when the coroutine of a run is always resumed: every
\* awaited call returns or raises
InitLive ==
    /\ env \in [use_redis : BOOLEAN, use_s3 : BOOLEAN]
    /\ provider \in [1..MaxFetch -> RawRecords] \cup {<<>>}
    /\ cache = EmptyStore
    /\ rawStore = EmptyStore
    /\ normStore = EmptyStore
    \* one record is left to deliver
    /\ delivered = MaxMessages - 1
    /\ handler = [w \in Workers |-> IdleHandler]
    /\ run = [w \in Workers |-> NoRun]
    /\ prev = [w \in Workers |-> NoSummary]
    /\ now = T1
    /\ hist = [written |-> EmptyStore, cacheFault |-> FALSE]
    /\ athena = NoQuery
    /\ api = NoApi
    /\ s3call = NoCall

SpecLive == InitLive /\ [][Next]_vars /\ WF_vars(Next)

SpecRecords == InitRecords /\ [][Next]_vars

(***************************************************************************)
(* Jobs over records that exercise each rule of the Normalizer: every      *)
(* record has a title that is not null, so it gets through the hash loop.  *)
(***************************************************************************)
\* the title is the provider's sentinel
RecRemovedTitle == Raw(Str(<<"[", "R", "e", "m", "o", "v", "e", "d", "]">>), Str(UrlA),
                       Str(IsoDate), Str(<<"d">>), Bbc)
\* the publication timestamp is not ISO-8601
RecBadDate == Raw(Str(<<"A">>), Str(UrlA), Str(BadDate), Str(<<"d">>), Bbc)
\* the description is JSON null, as the provider sends it for an article
\* without a description
RecNullDescription == Raw(Str(<<" ", "B", " ">>), Str(UrlB), Str(IsoDate), Null, Bbc)
\* the description is the provider's sentinel and the source has no name
RecRemovedDescription ==
    Raw(Str(<<"B">>), Str(UrlB), Str(IsoDate),
        Str(<<"[", "R", "e", "m", "o", "v", "e", "d", "]">>), NoSource)

NormalizerRecords ==
    {RecA, RecNoUrl, RecNoDate, RecBadDate, RecRemovedTitle, RecNullDescription,
     RecRemovedDescription}

InitNormalizer ==
    /\ env = [use_redis |-> TRUE, use_s3 |-> TRUE]
    /\ provider \in [1..MaxFetch -> NormalizerRecords]
    /\ cache = EmptyStore
    /\ rawStore = EmptyStore
    /\ normStore = EmptyStore
    \* one record is left to deliver
    /\ delivered = MaxMessages - 1
    /\ handler = [w \in Workers |-> IdleHandler]
    /\ run = [w \in Workers |-> NoRun]
    /\ prev = [w \in Workers |-> NoSummary]
    /\ now = T1
    /\ hist = [written |-> EmptyStore, cacheFault |-> FALSE]
    /\ athena = NoQuery
    /\ api = NoApi
    /\ s3call = NoCall

SpecNormalizer == InitNormalizer /\ [][Next]_vars

(***************************************************************************)
(* Specification: two Lambda containers on the shared cache and buckets,   *)
(* their steps interleaved; the jobs ask for one or for both of the two    *)
(* articles the provider returns                                           *)
(***************************************************************************)
InitConcurrent ==
    /\ env = [use_redis |-> TRUE, use_s3 |-> TRUE]
    /\ provider = <<RecA, RecRoot>>
    /\ cache = EmptyStore
    /\ rawStore = EmptyStore
    /\ normStore = EmptyStore
    \* two records are left to deliver: one job for each container, or two
    \* jobs for one of them
    /\ delivered = MaxMessages - 2
    /\ handler = [w \in Workers |-> IdleHandler]
    /\ run = [w \in Workers |-> NoRun]
    /\ prev = [w \in Workers |-> NoSummary]
    /\ now = T1
    /\ hist = [written |-> EmptyStore, cacheFault |-> FALSE]
    /\ athena = NoQuery
    /\ api = NoApi
    /\ s3call = NoCall

NextConcurrent == \E w \in Workers : Step(w)

SpecConcurrent == InitConcurrent /\ [][NextConcurrent]_vars

(***************************************************************************)
(* AthenaService.execute_query: one query is submitted, its state is       *)
(* polled with a growing interval until it is terminal or the waiting      *)
(* budget is used up, and a succeeded query's result pages are read.       *)
(***************************************************************************)
MaxWaitSeconds == 12
MaxPages == 2
DefaultMaxWait == 60
DefaultPollInterval == 1
BackoffCap == 10

\* the waiting budgets and first intervals of the calls: the defaults every
\* caller uses, and smaller budgets and a longer first interval around them
MaxWaits == (0..MaxWaitSeconds) \cup {DefaultMaxWait}
PollIntervals == {DefaultPollInterval, DefaultPollInterval + 1}
QueryStates == {"QUEUED", "RUNNING", "SUCCEEDED", "FAILED", "CANCELLED"}

\* the interval of the next wait
NextIntervalStuck(i) == 0
NextInterval(i) == Min(i * 2, BackoffCap)

\* the loop condition
KeepPolling(q) == q.elapsed < q.max_wait_seconds

QueryDone(q, outcome) == [q EXCEPT !.pc = "done", !.outcome = outcome]

\* the head of the polling loop: another round, or the timeout after it
LoopHead(q) ==
    IF KeepPolling(q) THEN [q EXCEPT !.pc = "poll"] ELSE QueryDone(q, "timeout")

\* start_query_execution and the first evaluation of the loop condition
AthenaStart ==
    /\ athena.pc = "start"
    /\ \E accepted \in BOOLEAN :
          athena' = IF accepted
                       THEN LoopHead([athena EXCEPT
                                !.elapsed = 0,
                                !.current_interval = athena.poll_interval])
                       ELSE QueryDone(athena, "client_error")
    /\ UNCHANGED <<env, provider, cache, rawStore, normStore, delivered, handler,
                   run, prev, now, hist, api, s3call>>

\* get_query_execution and the branch on the state it reports
AthenaPoll ==
    /\ athena.pc = "poll"
    /\ \/ athena' = QueryDone(athena, "client_error")
       \/ \E status \in QueryStates :
             athena' =
                CASE status = "SUCCEEDED" ->
                        [athena EXCEPT !.pc = "fetch", !.status = status]
                  [] status = "FAILED" ->
                        QueryDone([athena EXCEPT !.status = status], "failed")
                  [] status = "CANCELLED" ->
                        QueryDone([athena EXCEPT !.status = status], "cancelled")
                  [] OTHER ->
                        [athena EXCEPT !.pc = "sleep", !.status = status]
    /\ UNCHANGED <<env, provider, cache, rawStore, normStore, delivered, handler,
                   run, prev, now, hist, api, s3call>>

\* the wait, the two assignments after it and the next loop condition
AthenaSleep ==
    /\ athena.pc = "sleep"
    /\ athena' = LoopHead([athena EXCEPT
                    !.elapsed = athena.elapsed + athena.current_interval,
                    !.current_interval = NextInterval(athena.current_interval)])
    /\ UNCHANGED <<env, provider, cache, rawStore, normStore, delivered, handler,
                   run, prev, now, hist, api, s3call>>

\* _fetch_results: the first page tells how many pages follow
AthenaFetchFirst ==
    /\ athena.pc = "fetch"
    /\ \/ athena' = QueryDone(athena, "client_error")
       \/ \E more \in 0..MaxPages :
             athena' = IF more = 0
                          THEN QueryDone(athena, "success")
                          ELSE [athena EXCEPT !.pc = "page", !.pages = more]
    /\ UNCHANGED <<env, provider, cache, rawStore, normStore, delivered, handler,
                   run, prev, now, hist, api, s3call>>

\* _fetch_results: one further page for each NextToken
AthenaFetchPage ==
    /\ athena.pc = "page"
    /\ \/ athena' = QueryDone(athena, "client_error")
       \/ athena' = IF athena.pages = 1
                       THEN QueryDone([athena EXCEPT !.pages = 0], "success")
                       ELSE [athena EXCEPT !.pages = athena.pages - 1]
    /\ UNCHANGED <<env, provider, cache, rawStore, normStore, delivered, handler,
                   run, prev, now, hist, api, s3call>>

InitAthena ==
    /\ env = [use_redis |-> TRUE, use_s3 |-> TRUE]
    /\ provider = <<>>
    /\ cache = EmptyStore
    /\ rawStore = EmptyStore
    /\ normStore = EmptyStore
    /\ delivered = MaxMessages
    /\ handler = [w \in Workers |-> IdleHandler]
    /\ run = [w \in Workers |-> NoRun]
    /\ prev = [w \in Workers |-> NoSummary]
    /\ now = T1
    /\ hist = [written |-> EmptyStore, cacheFault |-> FALSE]
    /\ \E max_wait_seconds \in MaxWaits, poll_interval \in PollIntervals :
          athena = [NoQuery EXCEPT !.pc = "start",
                                   !.max_wait_seconds = max_wait_seconds,
                                   !.poll_interval = poll_interval]
    /\ api = NoApi
    /\ s3call = NoCall

NextAthena ==
    \/ AthenaStart
    \/ AthenaPoll
    \/ AthenaSleep
    \/ AthenaFetchFirst
    \/ AthenaFetchPage

\* the coroutine is always resumed: each client call returns or raises, and
\* each wait ends
SpecAthena == InitAthena /\ [][NextAthena]_vars /\ WF_vars(NextAthena)

(***************************************************************************)
(* The ingest endpoints: POST /api/v1/ingest of the FastAPI application    *)
(* (api/v1/ingest.py, synchronous) and of the API Lambda                   *)
(* (lambda_api_handler.py, which queues the job).  The framework validates *)
(* the body against IngestRequest before it calls the endpoint function.   *)
(***************************************************************************)
QueryMinLength == 1
SyncQueryMaxLength == 100
QueueQueryMaxLength == 500
LimitMin == 1
LimitMax == 100
SyncDefaultLimit == 10
QueueDefaultLimit == 100
DailyLimit == 100

IntVal(n) == [k |-> "int", v |-> n]

\* the query fields of the request bodies: none, empty, blank, a short one, one
\* that is one character longer than the synchronous endpoint accepts
LongQuery == [i \in 1..(SyncQueryMaxLength + 1) |-> "a"]
ApiQueries == {Absent, Str(<<>>), Str(<<" ">>), Str(QueryAI), Str(LongQuery)}
\* the limit fields: none, and values around both ends of the range
ApiLimits == {Absent, IntVal(LimitMin - 1), IntVal(LimitMin), IntVal(LimitMax), IntVal(LimitMax + 1)}

\* a field with a default
OrDefault(x, d) == IF x.k = "absent" THEN d ELSE x.v

\* IngestRequest of api/v1/ingest.py: query is required, 1..100 characters;
\* limit is 1..100 and 10 when it is left out
ValidSyncRequest(query, limit) ==
    /\ query.k = "str"
    /\ Len(query.v) >= QueryMinLength
    /\ Len(query.v) <= SyncQueryMaxLength
    /\ OrDefault(limit, SyncDefaultLimit) >= LimitMin
    /\ OrDefault(limit, SyncDefaultLimit) <= LimitMax

\* a model that lets any limit through
ValidQueueRequestAnyLimit(query, limit) ==
    /\ query.k = "str"
    /\ Len(query.v) >= QueryMinLength
    /\ Len(query.v) <= QueueQueryMaxLength
    /\ Strip(query.v) # <<>>

\* IngestRequest of lambda_api_handler.py: query is required, 1..500 characters
\* and not blank; limit is 1..100 and 100 when it is left out
ValidQueueRequest(query, limit) ==
    /\ query.k = "str"
    /\ Len(query.v) >= QueryMinLength
    /\ Len(query.v) <= QueueQueryMaxLength
    /\ Strip(query.v) # <<>>
    /\ OrDefault(limit, QueueDefaultLimit) >= LimitMin
    /\ OrDefault(limit, QueueDefaultLimit) <= LimitMax

\* the request as the endpoint function is about to see it
Arrived(endpoint, query, limit) ==
    [NoApi EXCEPT !.pc = "done", !.endpoint = endpoint, !.query = query,
                  !.limit = limit, !.requests_today = api.requests_today,
                  !.fetchesToday = api.fetchesToday]

Answered(a, status_code, count) == [a EXCEPT !.status_code = status_code, !.count = count]

\* a quota call that allows a request without counting it
check_and_increment_uncounted(requests_today, newDay) ==
    LET today == IF newDay THEN 0 ELSE requests_today
    IN  [allowed |-> today < DailyLimit, requests_today |-> today]

\* a quota call that never refuses
check_and_increment_unlimited(requests_today, newDay) ==
    [allowed |-> TRUE, requests_today |-> (IF newDay THEN 0 ELSE requests_today) + 1]

\* get_remaining: max(0, daily_limit - requests_today)
get_remaining(requests_today) ==
    IF DailyLimit - requests_today > 0 THEN DailyLimit - requests_today ELSE 0

\* check_and_increment: the counter starts again on a new day, and a request
\* is counted unless the day's quota is used up
check_and_increment(requests_today, newDay) ==
    LET today == IF newDay THEN 0 ELSE requests_today
    IN  IF today >= DailyLimit
        THEN [allowed |-> FALSE, requests_today |-> today]
        ELSE [allowed |-> TRUE, requests_today |-> today + 1]

\* the keys of the JSON object that fetch_articles returns
DataKeys == <<"status", "totalResults", "articles">>

\* normalize_batch iterating the object that fetch_articles returned: the items
\* are its keys, and raw.get on a str raises AttributeError in the try block
\* and again in its except clause, so the exception leaves normalize_batch
NormalizeData(keys, topic) ==
    IF keys = <<>> THEN [k |-> "articles", v |-> <<>>]
    ELSE [k |-> "AttributeError", v |-> <<>>]

\* ingest_articles of api/v1/ingest.py from the fetch on
AfterQuota(a, response) ==
    LET out == fetch_articles(response, provider, OrDefault(a.limit, SyncDefaultLimit))
        b == [a EXCEPT !.fetched = TRUE, !.response = response,
                       !.fetchesToday = @ + 1]
    IN  IF out.k = "NewsAPIError" THEN Answered(b, 502, 0)
        ELSE IF DataKeys = <<>> THEN Answered(b, 200, 0)
        ELSE LET normalized == NormalizeData(DataKeys, a.query.v)
             IN  IF normalized.k = "AttributeError" THEN Answered(b, 500, 0)
                 ELSE IF normalized.v = <<>> THEN Answered(b, 500, 0)
                 ELSE Answered(b, 200, Len(normalized.v))

\* POST /api/v1/ingest of the FastAPI application
SyncIngest ==
    /\ \E query \in ApiQueries, limit \in ApiLimits :
          LET a == Arrived("sync", query, limit)
          IN  IF ~ValidSyncRequest(query, limit)
              THEN api' = Answered(a, 422, 0)
              ELSE \/ api' = Answered([a EXCEPT !.rateLimited = TRUE], 429, 0)
                   \/ \E newDay \in BOOLEAN :
                        LET quota == check_and_increment(api.requests_today, newDay)
                            b == [a EXCEPT !.requests_today = quota.requests_today,
                                           !.quotaCall = TRUE, !.newDay = newDay,
                                           !.allowed = quota.allowed,
                                           !.fetchesToday =
                                              IF newDay THEN 0 ELSE @]
                        IN  IF ~quota.allowed
                            THEN api' = Answered(b, 429, 0)
                            ELSE \E response \in Responses :
                                    api' = AfterQuota(b, response)
    /\ UNCHANGED <<env, provider, cache, rawStore, normStore, delivered, handler,
                   run, prev, now, hist, athena, s3call>>

\* POST /api/v1/ingest of the API Lambda in its deployed configuration
\* (ENVIRONMENT is not "development"): the job is sent to the queue
QueueIngest ==
    /\ \E query \in ApiQueries, limit \in ApiLimits :
          LET a == Arrived("queue", query, limit)
          IN  IF ~ValidQueueRequest(query, limit)
              THEN api' = Answered(a, 422, 0)
              ELSE \E sent \in BOOLEAN :
                      \* no queue is configured, or send_message raises
                      api' = IF ~sent THEN Answered(a, 500, 0)
                             ELSE Answered([a EXCEPT !.sent = TRUE], 202, 0)
    /\ UNCHANGED <<env, provider, cache, rawStore, normStore, delivered, handler,
                   run, prev, now, hist, athena, s3call>>

InitApi ==
    /\ env = [use_redis |-> TRUE, use_s3 |-> TRUE]
    /\ provider \in {<<>>, <<RecA>>, <<RecA, RecNoDate>>}
    /\ cache = EmptyStore
    /\ rawStore = EmptyStore
    /\ normStore = EmptyStore
    /\ delivered = MaxMessages
    /\ handler = [w \in Workers |-> IdleHandler]
    /\ run = [w \in Workers |-> NoRun]
    /\ prev = [w \in Workers |-> NoSummary]
    /\ now = T1
    /\ hist = [written |-> EmptyStore, cacheFault |-> FALSE]
    /\ athena = NoQuery
    /\ api = NoApi
    /\ s3call = NoCall

NextApi == SyncIngest \/ QueueIngest

SpecApi == InitApi /\ [][NextApi]_vars

(***************************************************************************)
(* S3Client.store_normalized_articles called on lists of Article rows of   *)
(* several providers                                                       *)
(***************************************************************************)
MaxRows == 3

\* the provider tags the Article model names
Guardian == <<"g", "u", "a", "r", "d", "i", "a", "n">>
NyTimes == <<"n", "y", "t", "i", "m", "e", "s">>
ProviderTags == {NewsApi, Guardian, NyTimes}

\* rows as store_normalized_articles reads them: a source and the rest
StoreRows == [source : ProviderTags, article_hash : {<<"h1">>, <<"h2">>}]

\* lines 335-373: the entry of results for each source, in dict order
ResultSources(articles, ts) ==
    [n \in 1..Len(SourcesOf(articles)) |->
        [source |-> SourcesOf(articles)[n],
         key |-> _generate_normalized_key(SourcesOf(articles)[n], ts),
         count |-> Len(RowsOfSource(articles, SourcesOf(articles)[n]))]]

\* lines 319-321 and 383-394: what the call returns
StoreResult(articles, ts) ==
    IF articles = <<>>
    THEN [status |-> "success", files_written |-> 0, total_articles |-> 0,
          sources |-> <<>>]
    ELSE [status |-> "success", files_written |-> Len(ResultSources(articles, ts)),
          total_articles |-> Len(articles), sources |-> ResultSources(articles, ts)]

\* the call: every group is put and the summary returned, or a put raises
\* after some of the groups
StoreNormalizedArticles ==
    /\ s3call.pc = "called"
    /\ LET rows == s3call.articles
           groups == Len(SourcesOf(rows))
       IN  \/ /\ normStore' = PutGroups(normStore, rows, now, groups)
              /\ hist' = [hist EXCEPT !.written = LogRows(@, RowsOfGroups(rows, groups))]
              /\ s3call' = [s3call EXCEPT !.pc = "returned",
                                          !.result = StoreResult(rows, now)]
           \/ \E done \in 0..(groups - 1) :
              /\ normStore' = PutGroups(normStore, rows, now, done)
              /\ hist' = [hist EXCEPT !.written = LogRows(@, RowsOfGroups(rows, done))]
              /\ s3call' = [s3call EXCEPT !.pc = "raised"]
    /\ UNCHANGED <<env, provider, cache, rawStore, delivered, handler, run, prev, now,
                   athena, api>>

InitStore ==
    /\ env = [use_redis |-> TRUE, use_s3 |-> TRUE]
    /\ provider = <<>>
    /\ cache = EmptyStore
    /\ rawStore = EmptyStore
    /\ normStore = EmptyStore
    /\ delivered = MaxMessages
    /\ handler = [w \in Workers |-> IdleHandler]
    /\ run = [w \in Workers |-> NoRun]
    /\ prev = [w \in Workers |-> NoSummary]
    /\ now = T1
    /\ hist = [written |-> EmptyStore, cacheFault |-> FALSE]
    /\ athena = NoQuery
    /\ api = NoApi
    /\ \E articles \in SeqsUpTo(StoreRows, MaxRows) :
          s3call = [NoCall EXCEPT !.pc = "called", !.articles = articles]

NextStore == StoreNormalizedArticles

SpecStore == InitStore /\ [][NextStore]_vars

(***************************************************************************)
(* Properties                                                              *)
(***************************************************************************)
Distinct(q) == \A i, j \in 1..Len(q) : i # j => q[i] # q[j]

Finished(r) == r.stage \in {"returned", "raised"}

\* the article_hash column of a list of rows
HashColumn(rows) == [i \in 1..Len(rows) |-> rows[i].article_hash]

\* C1: with a configured cache that answers every request and was empty, a job
\* whose fetch result of N records with pairwise distinct hashes is processed
\* twice in succession reports new_articles = N the first time, and
\* new_articles = 0 with duplicates = N the second time.
C1_SecondRunAllDuplicates ==
    \A w \in Workers :
      LET r == run[w]
          p == prev[w]
          N == Len(r.raw_articles)
      IN  (/\ r.stage = "returned" /\ r.redis /\ ~r.checkFailed
           /\ p.stage = "returned" /\ p.emptyCacheChecked /\ p.marked
           /\ p.raw_articles = r.raw_articles
           /\ Distinct(r.article_hashes))
          => /\ p.new_articles = N
             /\ r.result.new_articles = 0
             /\ r.result.duplicates = N

\* C1: the second of two such runs has returned; one of its two records is one
\* the Normalizer rejects
C1_Witness ==
    \E w \in Workers :
      /\ run[w].stage = "returned" /\ run[w].redis /\ ~run[w].checkFailed
      /\ prev[w].stage = "returned" /\ prev[w].emptyCacheChecked /\ prev[w].marked
      /\ prev[w].raw_articles = run[w].raw_articles
      /\ run[w].raw_articles = <<RecA, RecNoDate>>
      /\ run[w].result.duplicates = 2

\* C2: while the cache is configured and has answered every request, no content
\* hash has been written to the normalized bucket more than once, over all
\* the normalized writes of all the runs.
C2_AtMostOnceStorage ==
    (env.use_redis /\ ~hist.cacheFault)
    => \A h \in DOMAIN hist.written : hist.written[h] <= 1

\* C3: when the batch existence check fails, every hash is reported as not
\* existing: no duplicate is counted, all the fetched records go to the
\* Normalizer, the run does not fail at the check, and a returned result has
\* duplicates = 0 and new_articles = N.
C3_FailOpenCheck ==
    \A w \in Workers :
      LET r == run[w]
      IN  r.checkFailed
          => /\ Len(r.exists_list) = Len(r.article_hashes)
             /\ \A i \in 1..Len(r.exists_list) : ~r.exists_list[i]
             /\ r.duplicate_count = 0
             /\ r.new_articles = r.raw_articles
             /\ r.normalized_articles = normalize_batch(r.raw_articles, r.query)
             /\ r.stage \in {"store_raw", "store_normalized", "mark", "returned", "raised"}
             /\ r.stage = "raised" => r.raisedAt \in {"store_raw", "store_normalized"}
             /\ r.stage = "returned"
                => /\ r.result.status = "success"
                   /\ r.result.duplicates = 0
                   /\ r.result.new_articles = Len(r.raw_articles)

\* C3: a run whose check failed has returned although the cache held one of
\* its hashes
C3_Witness ==
    \E w \in Workers :
      /\ run[w].checkFailed /\ run[w].stage = "returned"
      /\ \E i \in 1..Len(run[w].article_hashes) :
           run[w].article_hashes[i] \in DOMAIN run[w].cacheAtStart

\* C4: a run calls batch_mark_processed only after its raw write and its
\* normalized write have both completed.
C4_MarkAfterBothWrites ==
    \A w \in Workers :
      run[w].markCalls > 0 => (run[w].rawWrites = 1 /\ run[w].normWrites = 1)

\* C5: in a returned run that made its normalized write, the hashes handed to
\* batch_mark_processed are exactly the hashes of the articles of that write: a record the Normalizer
\* rejects is not marked.
C5_MarkExactlyStored ==
    \A w \in Workers :
      (run[w].stage = "returned" /\ run[w].markCalls = 1 /\ run[w].normWrites = 1)
      => run[w].markArg = HashColumn(run[w].normalized_articles)

\* C6: a finished run that fetched records, found some of them new and got no
\* Article out of the Normalizer has ended in an error.
C6_AllRejectedIsError ==
    \A w \in Workers :
      (/\ Finished(run[w])
       /\ Len(run[w].new_articles) > 0
       /\ run[w].normalized_articles = <<>>)
      => run[w].stage = "raised"

\* C7: when the fetch, the raw write or the normalized write raises, the run
\* raises to its caller without a result, has not called batch_mark_processed,
\* and leaves the cache as it found it.
C7_FailureRaisesUnmarked ==
    \A w \in Workers :
      run[w].raisedAt \in {"fetch", "store_raw", "store_normalized"}
      => /\ run[w].stage = "raised"
         /\ run[w].result = NoResult
         /\ run[w].markCalls = 0
         /\ cache = run[w].cacheAtStart

\* C7: the normalized write of a run with new hashes raised after its raw write
C7_Witness ==
    \E w \in Workers :
      /\ run[w].raisedAt = "store_normalized" /\ run[w].stage = "raised"
      /\ run[w].redis /\ run[w].new_hashes # <<>> /\ run[w].rawWrites = 1

\* C8: a failed raw write does not keep the normalized write from being
\* attempted, and a failed normalized write leaves the raw object of the run
\* in the raw bucket.
C8_IndependentWrites ==
    \A w \in Workers :
      LET r == run[w]
          key == _generate_raw_key(r.query, r.start_time)
      IN  /\ (r.stage = "raised" /\ r.raisedAt = "store_raw") => r.normAttempts = 1
          /\ (r.stage = "raised" /\ r.raisedAt = "store_normalized" /\ r.rawWrites = 1)
             => /\ key \in DOMAIN rawStore
                /\ rawStore[key] = RawPayload(r.raw_articles, r.query, r.start_time)

\* the ids of the records among the first n whose processing raised, in batch order
RECURSIVE RaisedIds(_, _, _)
RaisedIds(records, outcomes, n) ==
    IF n = 0 THEN <<>>
    ELSE RaisedIds(records, outcomes, n - 1)
         \o (IF outcomes[n] = "raised" THEN <<records[n].messageId>> ELSE <<>>)

C10_ZeroResultShortCircuit ==
    \A w \in Workers :
      LET r == run[w]
      IN  (r.fetched /\ r.raw_articles = <<>>)
          => /\ r.stage = "returned"
             /\ r.result.status = "success"
             /\ r.result.fetched = 0 /\ r.result.duplicates = 0
             /\ r.result.new_articles = 0 /\ r.result.stored = 0
             /\ r.checkCalls = 0 /\ r.markCalls = 0
             /\ r.rawWrites = 0 /\ r.normAttempts = 0
             /\ cache = r.cacheAtStart

\* C10: a run with the cache and the storage configured fetched nothing
C10_Witness ==
    \E w \in Workers :
      /\ run[w].fetched /\ run[w].raw_articles = <<>> /\ run[w].stage = "returned"
      /\ run[w].redis /\ run[w].s3

\* C11: when the cache reports every fetched hash as existing, the run returns
\* a success result with duplicates = fetched, new_articles = 0, stored = 0 and
\* a message, and has normalized nothing, written nothing and marked nothing.
C11_AllDuplicatesExit ==
    \A w \in Workers :
      LET r == run[w]
      IN  (/\ r.checkCalls = 1
           /\ r.exists_list # <<>>
           /\ \A i \in 1..Len(r.exists_list) : r.exists_list[i])
          => /\ r.stage = "returned"
             /\ r.result.status = "success"
             /\ r.result.fetched = Len(r.raw_articles)
             /\ r.result.duplicates = r.result.fetched
             /\ r.result.new_articles = 0 /\ r.result.stored = 0
             /\ r.result.message # ""
             /\ r.normalized_articles = <<>>
             /\ r.rawWrites = 0 /\ r.normAttempts = 0 /\ r.markCalls = 0
             /\ cache = r.cacheAtStart

\* C11: a run with the storage configured found both of its records in the cache
C11_Witness ==
    \E w \in Workers :
      /\ run[w].checkCalls = 1 /\ run[w].s3
      /\ run[w].exists_list = <<TRUE, TRUE>>
      /\ run[w].result.duplicates = 2

\* C12: when no cache is configured, no run calls batch_check_exists or
\* batch_mark_processed, every fetched record is routed as new (duplicates = 0,
\* new_articles = fetched), and a run raises only from the fetch, the hash loop
\* or a storage write.
C12_NoCacheConfigured ==
    ~env.use_redis
    => /\ cache = EmptyStore
       /\ \A w \in Workers :
            LET r == run[w]
            IN  /\ ~r.redis /\ r.checkCalls = 0 /\ r.markCalls = 0
                /\ r.duplicate_count = 0
                /\ r.stage \in {"store_raw", "store_normalized", "mark"}
                   => r.new_articles = r.raw_articles
                /\ (r.stage = "returned" /\ r.raw_articles # <<>>)
                   => /\ r.result.status = "success"
                      /\ r.result.duplicates = 0
                      /\ r.result.new_articles = r.result.fetched
                      /\ r.result.fetched = Len(r.raw_articles)
                      /\ r.new_articles = r.raw_articles
                /\ r.stage = "raised"
                   => r.raisedAt \in {"fetch", "hash", "store_raw", "store_normalized"}

\* C12: without a cache, a second run over the two records of a first run has
\* returned them as new again
C12_Witness ==
    \E w \in Workers :
      /\ ~env.use_redis /\ run[w].stage = "returned"
      /\ prev[w].stage = "returned" /\ prev[w].raw_articles = run[w].raw_articles
      /\ prev[w].new_articles = 2 /\ run[w].result.new_articles = 2

\* C13: when the mark request fails, batch_mark_processed returns 0 and the
\* run still returns its success result with the same counts; the cache is as
\* the run found it, so a following run over the same records, with the cache
\* answering, finds all of them new again.
C13_MarkFailureTolerated ==
    \A w \in Workers :
      LET r == run[w]
          p == prev[w]
      IN  /\ r.markFailed
             => /\ batch_mark_processed(r.markArg, TRUE) = 0
                /\ r.stage = "returned"
                /\ r.result.status = "success"
                /\ r.result.fetched = Len(r.raw_articles)
                /\ r.result.duplicates = r.duplicate_count
                /\ r.result.new_articles = Len(r.new_articles)
                /\ r.result.stored = Len(r.normalized_articles)
                /\ cache = r.cacheAtStart
          /\ (/\ p.stage = "returned" /\ p.markFailed /\ p.emptyCacheChecked
              /\ r.checkCalls = 1 /\ ~r.checkFailed
              /\ r.raw_articles = p.raw_articles)
             => /\ r.new_articles = r.raw_articles
                /\ r.duplicate_count = 0

\* C13: the mark of a first run over two records failed, and the check of the
\* run after it over the same records has been answered
C13_Witness ==
    \E w \in Workers :
      /\ prev[w].stage = "returned" /\ prev[w].markFailed /\ prev[w].emptyCacheChecked
      /\ run[w].checkCalls = 1 /\ ~run[w].checkFailed
      /\ run[w].raw_articles = prev[w].raw_articles
      /\ Len(run[w].new_articles) = 2

\* C14: for every new record of a run that the Normalizer accepts, the hash of
\* the dedup step (checked and marked in the cache) is the article_hash of the
\* Article made from it.
C14_HashCallSitesAgree ==
    \A w \in Workers :
      \A i \in 1..Len(run[w].new_articles) :
        LET row == normalize_newsapi_article(run[w].new_articles[i], run[w].query)
        IN  row # <<>> => row[1].article_hash = run[w].new_hashes[i]

\* the title of a raw record as the hash reads it, lower-cased and trimmed
TitleKey(raw) == Strip(Lower(GetOrEmpty(raw.title).v))

\* C15: two records of a fetch whose titles are equal after lower-casing and
\* trimming and whose URLs are equal have the same hash in the dedup step,
\* whatever their source, description and publication date; and two Articles
\* with such titles and equal URLs have the same article_hash.
C15_HashOfTitleAndUrl ==
    \A w \in Workers :
      LET r == run[w]
      IN  /\ \A i, j \in 1..Len(r.article_hashes) :
               (/\ TitleKey(r.raw_articles[i]) = TitleKey(r.raw_articles[j])
                /\ r.raw_articles[i].url = r.raw_articles[j].url)
               => r.article_hashes[i] = r.article_hashes[j]
          /\ \A i, j \in 1..Len(r.normalized_articles) :
               (/\ Strip(Lower(r.normalized_articles[i].title))
                     = Strip(Lower(r.normalized_articles[j].title))
                /\ r.normalized_articles[i].url = r.normalized_articles[j].url)
               => r.normalized_articles[i].article_hash
                    = r.normalized_articles[j].article_hash

\* C15: a fetch held the article twice, with different spelling of the title
\* and different metadata, and both were normalized
C15_Witness ==
    \E w \in Workers :
      /\ run[w].raw_articles = <<RecA, RecASyndicated>>
      /\ run[w].article_hashes[1] = run[w].article_hashes[2]
      /\ Len(run[w].normalized_articles) = 2

\* the positions of the records of raws that normalize_newsapi_article accepts
AcceptedAt(raws, topic) ==
    {i \in 1..Len(raws) : normalize_newsapi_article(raws[i], topic) # <<>>}

\* the position in raws of the k-th accepted record
NthAccepted(raws, topic, k) ==
    CHOOSE i \in AcceptedAt(raws, topic) :
      Cardinality({j \in AcceptedAt(raws, topic) : j <= i}) = k

\* five records, the third without a URL
FiveRecords == <<RecA, RecRoot, RecNoUrl, RecA, RecASyndicated>>

\* C17: the output of normalize_batch is the Articles of exactly the records
\* that pass validation, in input order; the others are the rejections; a
\* rejected record changes nothing for the records around it (five records of
\* which the third has no URL give four Articles and one rejection).
C17_BatchIsolation ==
    /\ \A w \in Workers :
         LET r == run[w]
             raws == r.new_articles
             rows == r.normalized_articles
         IN  raws # <<>>
             => /\ Len(rows) = Cardinality(AcceptedAt(raws, r.query))
                /\ Len(raws) - Len(rows)
                     = Cardinality((1..Len(raws)) \ AcceptedAt(raws, r.query))
                /\ \A k \in 1..Len(rows) :
                     <<rows[k]>> = normalize_newsapi_article(
                                      raws[NthAccepted(raws, r.query, k)], r.query)
    /\ Len(normalize_batch(FiveRecords, QueryAI)) = 4
    /\ Len(FiveRecords) - Len(normalize_batch(FiveRecords, QueryAI)) = 1
    /\ normalize_batch(FiveRecords, QueryAI)
         = normalize_batch(<<RecA, RecRoot, RecA, RecASyndicated>>, QueryAI)

\* C17: the first of two new records was rejected and the second was accepted
C17_Witness ==
    \E w \in Workers :
      /\ run[w].new_articles = <<RecNoUrl, RecA>>
      /\ Len(run[w].normalized_articles) = 1
      /\ run[w].normalized_articles[1].url = UrlA

\* C16: batch_check_exists answers with one flag per hash, in the order of the
\* hashes: flag i tells whether hash i is in the cache; for no hash it answers
\* with no flag, whether or not the cache can be reached. So the dedup step
\* counts every fetched record as a duplicate or keeps it as new.
C16_CheckOnePerHash ==
    /\ \A fails \in BOOLEAN : batch_check_exists(cache, <<>>, fails) = <<>>
    /\ \A w \in Workers :
         LET r == run[w]
         IN  r.checkCalls = 1
             => /\ Len(r.exists_list) = Len(r.article_hashes)
                /\ ~r.checkFailed
                   => \A i \in 1..Len(r.exists_list) :
                        r.exists_list[i] = (r.article_hashes[i] \in DOMAIN r.cacheAtStart)
                /\ r.duplicate_count + Len(r.new_articles) = Len(r.raw_articles)
                /\ r.duplicate_count
                     = Cardinality({i \in 1..Len(r.exists_list) : r.exists_list[i]})
                /\ \A i \in 1..Len(r.raw_articles) :
                     ~r.exists_list[i]
                     => \E k \in 1..Len(r.new_articles) :
                          /\ r.new_articles[k] = r.raw_articles[i]
                          /\ r.new_hashes[k] = r.article_hashes[i]

\* C16: the cache held the hash of the first of two records and not that of
\* the second
C16_Witness ==
    \E w \in Workers :
      /\ run[w].checkCalls = 1 /\ ~run[w].checkFailed
      /\ run[w].exists_list = <<TRUE, FALSE>>
      /\ run[w].new_articles = <<run[w].raw_articles[2]>>

\* C20: the object of a run's raw write holds every record the run fetched,
\* the duplicates and the records the Normalizer rejects included, with the
\* query, the timestamp of the run, and article_count = the number fetched.
C20_RawWriteHoldsAllFetched ==
    \A w \in Workers :
      LET r == run[w]
          key == _generate_raw_key(r.query, r.start_time)
      IN  r.rawWrites = 1
          => /\ key \in DOMAIN rawStore
             /\ rawStore[key].articles = r.raw_articles
             /\ rawStore[key].article_count = Len(r.raw_articles)
             /\ rawStore[key].article_count = r.duplicate_count + Len(r.new_articles)
             /\ rawStore[key].query = r.query
             /\ rawStore[key].fetched_at = r.start_time

\* C20: a raw write was made by a run that found one of its two records in the
\* cache and whose other record the Normalizer rejected
C20_Witness ==
    \E w \in Workers :
      /\ run[w].rawWrites = 1
      /\ Len(run[w].raw_articles) = 2
      /\ run[w].duplicate_count = 1
      /\ run[w].normalized_articles = <<>>

\* the rows of all the objects of the normalized bucket
StoredRows == UNION {Range(normStore[k].rows) : k \in DOMAIN normStore}

\* C18: whatever the interleaving of the jobs, every article of the normalized
\* write of a run that has returned its result is in the normalized bucket: no
\* object of one job is overwritten or lost because of another job.
C18_StoredArticlesSurvive ==
    \A w \in Workers :
      (run[w].stage = "returned" /\ run[w].normWrites = 1)
      => Range(run[w].normalized_articles) \subseteq StoredRows

\* the check step of worker w: what it finds in the cache it does not keep as new
CheckExcludesMarked(w) ==
    (run[w].stage = "check" /\ run'[w].stage # "check")
    => \A i \in 1..Len(run[w].article_hashes) :
         run[w].article_hashes[i] \in DOMAIN cache
         => /\ run'[w].exists_list[i]
            /\ run[w].article_hashes[i] \notin Range(run'[w].new_hashes)
            /\ run'[w].duplicate_count >= 1

\* the normalized write of worker w: the rows it puts are Articles of records
\* that its check did not flag as existing
WritesOnlyNew(w) ==
    (run[w].stage = "store_normalized" /\ run'[w].normAttempts = run[w].normAttempts + 1)
    => \A k \in DOMAIN normStore' :
         (k \notin DOMAIN normStore \/ normStore'[k] # normStore[k])
         => \A row \in Range(normStore'[k].rows) :
              \E i \in 1..Len(run[w].raw_articles) :
                /\ ~run[w].exists_list[i]
                /\ <<row>> = normalize_newsapi_article(run[w].raw_articles[i], run[w].query)

\* C19 as stated: a job whose check comes after the mark of another job stores
\* none of the articles whose hashes that job marked (whether or not the check
\* request is answered).
C19_MarkBeforeCheckPreventsStorage ==
    [][\A w \in Workers : CheckExcludesMarked(w) /\ WritesOnlyNew(w)]_vars

\* C19: a job whose check request is answered after the mark of another job
\* has landed stores none of the articles whose hashes that job marked: what
\* the answered check finds in the cache is counted as duplicate, and the
\* normalized write holds only Articles of records that were not in the cache
\* at the check.
C19_AnsweredCheckPreventsStorage ==
    [][\A w \in Workers :
         /\ (run'[w].checkCalls = 1 /\ ~run'[w].checkFailed) => CheckExcludesMarked(w)
         /\ (run[w].checkCalls = 1 /\ ~run[w].checkFailed) => WritesOnlyNew(w)]_vars

\* C19: the mark of another job landed between the start of a run and its
\* check, the check found the hash, and the run has written the other article
C19_Witness ==
    \E w \in Workers :
      /\ run[w].checkCalls = 1 /\ ~run[w].checkFailed
      /\ run[w].exists_list = <<TRUE, FALSE>>
      /\ run[w].article_hashes[1] \notin DOMAIN run[w].cacheAtStart
      /\ run[w].normWrites = 1

\* C21: the key of a normalized object is
\* normalized/year=YYYY/month=MM/day=DD/source=<sanitized source>/...: for
\* 2026-02-06 and source "newsapi" it holds year=2026/month=02/day=06/
\* source=newsapi; every article of a run's normalized write lies in the
\* object under its own source and the date of the run, and every object of
\* the bucket holds only articles of the source of its key.
C21_NormalizedKeyPartition ==
    /\ _generate_normalized_key(NewsApi, T1).prefix = "normalized"
    /\ _generate_normalized_key(NewsApi, T1).year = <<2, 0, 2, 6>>
    /\ _generate_normalized_key(NewsApi, T1).month = <<0, 2>>
    /\ _generate_normalized_key(NewsApi, T1).day = <<0, 6>>
    /\ _generate_normalized_key(NewsApi, T1).source = NewsApi
    /\ \A k \in DOMAIN normStore :
         /\ k.prefix = "normalized"
         /\ \A row \in Range(normStore[k].rows) : Sanitize(row.source) = k.source
    /\ \A w \in Workers :
         run[w].normWrites = 1
         => \A row \in Range(run[w].normalized_articles) :
              \E k \in DOMAIN normStore :
                /\ row \in Range(normStore[k].rows)
                /\ k.source = Sanitize(row.source)
                /\ k.year = Pad4(run[w].start_time.year)
                /\ k.month = Pad2(run[w].start_time.month)
                /\ k.day = Pad2(run[w].start_time.day)

\* C21: a run started on 2026-02-06 has written an article of source "newsapi"
C21_Witness ==
    \E w \in Workers :
      /\ run[w].normWrites = 1 /\ run[w].normalized_articles # <<>>
      /\ \E k \in DOMAIN normStore :
           /\ k.year = <<2, 0, 2, 6>> /\ k.month = <<0, 2>> /\ k.day = <<0, 6>>
           /\ k.source = NewsApi
           /\ run[w].normalized_articles[1] \in Range(normStore[k].rows)

\* C22: a run makes one request to the provider and no second one; when the
\* answer is a status other than "ok", a non-2xx status or no answer at all,
\* the run raises from the fetch without a result, without any cache call or
\* storage write; when the answer is "ok" with no article, the run returns
\* normally.
C22_FetchOnceNoRetry ==
    \A w \in Workers :
      LET r == run[w]
      IN  /\ r.fetchRequests <= 1
          /\ r.stage \notin {"none", "fetch"} => r.fetchRequests = 1
          /\ r.response \in {"status_error", "http_error", "network_error"}
             => /\ r.stage = "raised" /\ r.raisedAt = "fetch"
                /\ ~r.fetched /\ r.result = NoResult
                /\ r.checkCalls = 0 /\ r.markCalls = 0
                /\ r.rawWrites = 0 /\ r.normAttempts = 0
                /\ cache = r.cacheAtStart
          /\ (r.response = "ok" /\ r.raw_articles = <<>>)
             => /\ r.stage = "returned" /\ r.result.status = "success"
                /\ r.raisedAt = ""

\* C22: the provider answered a run, with cache and storage configured and
\* marked hashes in the cache, with a status other than "ok"
C22_Witness ==
    \E w \in Workers :
      /\ run[w].response = "status_error" /\ run[w].stage = "raised"
      /\ run[w].redis /\ run[w].s3 /\ run[w].cacheAtStart # EmptyStore

\* C23: every hash in the cache carries the expiry of ttl_days * 86400 seconds
\* (14 days = 1209600 s): the batch mark writes with SETEX only, and so does
\* the mark of a single hash.
C23_EveryHashExpires ==
    /\ ttl_seconds = 1209600
    /\ \A h \in DOMAIN cache : cache[h] = ttl_seconds /\ cache[h] # NoExpiry
    /\ \A w \in Workers :
         \A i \in 1..Len(run[w].article_hashes) :
           LET after == mark_article_processed(cache, run[w].article_hashes[i], FALSE)
           IN  \A h \in DOMAIN after : after[h] = ttl_seconds

\* C23: two hashes were marked by a run
C23_Witness ==
    \E w \in Workers :
      /\ run[w].markCalls = 1 /\ ~run[w].markFailed
      /\ Len(run[w].markArg) = 2
      /\ Range(run[w].markArg) \subseteq DOMAIN cache
      /\ Cardinality(DOMAIN cache) = 2


C25_HashAllThenOneBatch ==
    \A w \in Workers :
        LET r == run[w] IN
        /\ r.checkCalls <= 1
        /\ r.markCalls <= 1
        /\ (r.stage = "check" \/ r.checkCalls = 1) =>
              /\ Len(r.article_hashes) = Len(r.raw_articles)
              /\ \A i \in 1..Len(r.raw_articles) :
                    r.article_hashes[i] = ArticleHash(r.raw_articles[i])
        /\ r.checkCalls = 1 => Len(r.exists_list) = Len(r.article_hashes)
        /\ r.markCalls = 1 => r.markArg = r.new_hashes

\* a run that fetched two records, checked them and marked them, with one
\* request each
C25_Witness ==
    /\ run[1].stage = "returned"
    /\ Len(run[1].raw_articles) = 2
    /\ run[1].checkCalls = 1
    /\ run[1].markCalls = 1
    /\ Len(run[1].markArg) = 2

(***************************************************************************)
(* C26: a request to an ingest endpoint whose query is empty or whose      *)
(* limit is outside 1..100 is answered 422 by the validation of the body:  *)
(* the quota counter keeps its value, no fetch is issued and nothing is    *)
(* sent to the queue.                                                      *)
(***************************************************************************)
C26_InvalidRequestRejected ==
    [][(/\ api'.pc = "done"
        /\ \/ api'.query = Str(<<>>)
           \/ (api'.limit.k = "int" /\ api'.limit.v \notin LimitMin..LimitMax))
       => /\ api'.status_code = 422
          /\ api'.requests_today = api.requests_today
          /\ ~api'.fetched
          /\ ~api'.sent]_vars

\* such requests have been answered 422 after earlier requests were counted
C26_Witness ==
    /\ api.pc = "done"
    /\ api.query = Str(QueryAI)
    /\ api.limit = IntVal(LimitMax + 1)
    /\ api.status_code = 422
    /\ api.requests_today > 0

(***************************************************************************)
(* C27: a valid request to the synchronous endpoint that is within quota   *)
(* and whose fetch succeeds with at least one record the Normalizer        *)
(* accepts is answered 200 with count = the number of accepted records.    *)
(* The endpoint hands the whole answer of fetch_articles, a JSON object,   *)
(* to normalize_batch, so the state after such a request violates this.    *)
(***************************************************************************)
C27_SyncIngestReturnsCount ==
    LET limit == OrDefault(api.limit, SyncDefaultLimit)
        accepted == normalize_batch(FetchedArticles(provider, limit), api.query.v)
    IN  (/\ api.pc = "done"
         /\ api.endpoint = "sync"
         /\ ValidSyncRequest(api.query, api.limit)
         /\ api.fetched
         /\ api.response = "ok"
         /\ accepted # <<>>)
        => /\ api.status_code = 200
           /\ api.count = Len(accepted)

(***************************************************************************)
(* C28: a fetched record whose title or url is absent or null does not     *)
(* make the run raise: the run gets past the hash loop with the record     *)
(* among its fetched records.  A record whose title is JSON null breaks    *)
(* this: title.lower() in the hash loop raises and the run fails.          *)
(***************************************************************************)
C28_MalformedRecordNeverFailsJob ==
    \A w \in Workers :
      (/\ run[w].fetched
       /\ \E i \in 1..Len(run[w].raw_articles) :
             \/ run[w].raw_articles[i].title.k \in {"absent", "null"}
             \/ run[w].raw_articles[i].url.k \in {"absent", "null"})
      => run[w].raisedAt # "hash"

(***************************************************************************)
(* C29: the three rules, in the order title, URL, publication timestamp,   *)
(* decide the rejection: a record is rejected exactly when one of them     *)
(* fails, and a record that passes all three yields an Article with the    *)
(* trimmed title, the description (absent for "[removed]" or empty), the   *)
(* source_name (name, else id, else "unknown") and its article_hash.  A    *)
(* record whose description is JSON null passes the three rules and is     *)
(* dropped all the same, which violates this.                              *)
(***************************************************************************)
PassesRules(raw) ==
    /\ raw.title.k = "str"
    /\ Strip(raw.title.v) # <<>>
    /\ Lower(Strip(raw.title.v)) # Removed
    /\ raw.url.k = "str" /\ raw.url.v # <<>>
    /\ raw.publishedAt.k = "str" /\ IsoParsable(raw.publishedAt.v)

\* the index in raws of the k-th record that passes the rules
RECURSIVE NthPassing(_, _)
NthPassing(raws, k) ==
    LET first == CHOOSE i \in 1..Len(raws) :
                    /\ PassesRules(raws[i])
                    /\ \A j \in 1..(i - 1) : ~PassesRules(raws[j])
    IN  IF k = 1 THEN first
        ELSE first + NthPassing(SubSeq(raws, first + 1, Len(raws)), k - 1)

C29_RulesDecideRejection ==
    \A w \in Workers :
      LET raws == run[w].new_articles
          rows == run[w].normalized_articles
          passing == {i \in 1..Len(raws) : PassesRules(raws[i])}
      IN  raws # <<>>
          => /\ Len(rows) = Cardinality(passing)
             /\ \A k \in 1..Len(rows) :
                  LET raw == raws[NthPassing(raws, k)]
                  IN  /\ rows[k].title = Strip(raw.title.v)
                      /\ rows[k].description = Description(raw)
                      /\ rows[k].source_name = SourceName(raw.source)
                      /\ rows[k].article_hash # <<>>

(***************************************************************************)
(* C30: a call of store_normalized_articles that returns has written one   *)
(* object for each distinct source of its input and every input article    *)
(* is in exactly one of them; files_written is the number of distinct      *)
(* sources, the per-source counts add up to total_articles =               *)
(* len(articles); for an empty input nothing is written and the call       *)
(* returns success with files_written = 0.                                 *)
(***************************************************************************)
RECURSIVE SumCounts(_)
SumCounts(entries) ==
    IF entries = <<>> THEN 0 ELSE Head(entries).count + SumCounts(Tail(entries))

C31_BackoffWithinCeiling ==
    (/\ athena.pc \in {"poll", "sleep", "fetch", "page", "done"}
     /\ athena.max_wait_seconds = DefaultMaxWait
     /\ athena.poll_interval = DefaultPollInterval
     /\ athena.outcome # "client_error" \/ athena.current_interval > 0)
    => /\ athena.current_interval \in {1, 2, 4, 8, BackoffCap}
       /\ athena.elapsed \in {0, 1, 3, 7, 15, 25, 35, 45, 55, 65}
       /\ athena.elapsed <= athena.max_wait_seconds

(***************************************************************************)
(* C32: when a job is run again after a failed run, the raw write of the   *)
(* second run replaces the audit object of the first: the raw bucket never *)
(* holds two objects with the same query and the same articles under two   *)
(* keys.  The key carries datetime.now() of each run to the second, so a   *)
(* run that starts a second later violates this.                           *)
(***************************************************************************)
C32_RetryOverwritesRawObject ==
    \A w \in Workers :
      (prev[w].stage = "raised" /\ run[w].rawWrites = 1)
      => \A k1, k2 \in DOMAIN rawStore :
            (/\ rawStore[k1].query = rawStore[k2].query
             /\ rawStore[k1].articles = rawStore[k2].articles)
            => k1 = k2

(***************************************************************************)
(* C33: requests_today stays within 0..daily_limit; a call of              *)
(* check_and_increment returns True and adds exactly 1 when the counter,   *)
(* after the reset of a new day, is below daily_limit, and otherwise       *)
(* returns False and leaves the counter as it was; only a call on a later  *)
(* date resets the counter; get_remaining is daily_limit - requests_today  *)
(* and never negative.                                                     *)
(***************************************************************************)
C33_QuotaCounter ==
    [][LET before == api.requests_today
           after == api'.requests_today
           start == IF api'.newDay THEN 0 ELSE before
       IN  /\ after \in 0..DailyLimit
           /\ get_remaining(after) = DailyLimit - after
           /\ get_remaining(after) >= 0
           /\ ~api'.quotaCall => after = before
           /\ api'.quotaCall =>
                /\ api'.allowed = (start < DailyLimit)
                /\ api'.allowed => after = start + 1
                /\ ~api'.allowed => (after = before /\ ~api'.newDay)
                /\ after < before => api'.newDay]_vars

\* a call was refused with the day's quota used up
C33_Witness ==
    /\ api.quotaCall
    /\ ~api.allowed
    /\ api.requests_today = DailyLimit
    /\ api.status_code = 429

(***************************************************************************)
(* C34: in the synchronous endpoint a fetch is only issued after a quota   *)
(* call that allowed it and counted it, so at most daily_limit fetches are *)
(* issued between two resets; a request the quota refuses is answered 429  *)
(* without a fetch and without normalization; a fetch that fails has used  *)
(* one unit of the quota all the same.                                     *)
(***************************************************************************)
C34_FetchWithinQuota ==
    [][(api'.pc = "done" /\ api'.endpoint = "sync")
       => LET start == IF api'.newDay THEN 0 ELSE api.requests_today
          IN  /\ api'.fetched =>
                    /\ api'.quotaCall /\ api'.allowed
                    /\ api'.requests_today = start + 1
              /\ api'.fetchesToday <= DailyLimit
              /\ api'.fetchesToday <= api'.requests_today
              /\ (api'.quotaCall /\ ~api'.allowed) =>
                    /\ api'.status_code = 429
                    /\ ~api'.fetched
                    /\ api'.response = ""
                    /\ api'.count = 0
                    /\ api'.fetchesToday = api.fetchesToday
              /\ (api'.fetched /\ api'.response # "ok") =>
                    /\ api'.status_code = 502
                    /\ api'.requests_today = start + 1]_vars

\* the last unit of a day was used by a fetch that failed
C34_Witness ==
    /\ api.endpoint = "sync"
    /\ api.fetched
    /\ api.response = "network_error"
    /\ api.status_code = 502
    /\ api.requests_today = DailyLimit
    /\ api.fetchesToday = DailyLimit

(***************************************************************************)
(* C35: in every success result fetched = duplicates + new_articles and    *)
(* 0 <= stored <= new_articles <= fetched; the records given to the        *)
(* Normalizer are the fetched records whose existence flag is False, in    *)
(* the order of the fetch.                                                 *)
(***************************************************************************)
\* the index of the k-th False among the flags
RECURSIVE NthNew(_, _)
NthNew(exists, k) ==
    LET first == CHOOSE i \in 1..Len(exists) :
                    ~exists[i] /\ \A j \in 1..(i - 1) : exists[j]
    IN  IF k = 1 THEN first
        ELSE first + NthNew(SubSeq(exists, first + 1, Len(exists)), k - 1)

C35_ResultCounts ==
    \A w \in Workers :
      LET r == run[w] IN
      r.stage = "returned"
      => /\ r.result.status = "success"
         /\ r.result.fetched = Len(r.raw_articles)
         /\ r.result.fetched = r.result.duplicates + r.result.new_articles
         /\ 0 <= r.result.stored
         /\ r.result.stored <= r.result.new_articles
         /\ r.result.new_articles <= r.result.fetched
         /\ r.raw_articles # <<>> =>
              /\ Len(r.exists_list) = Len(r.raw_articles)
              /\ Len(r.new_articles)
                   = Cardinality({i \in 1..Len(r.exists_list) : ~r.exists_list[i]})
              /\ r.result.new_articles = Len(r.new_articles)
              /\ \A k \in 1..Len(r.new_articles) :
                    r.new_articles[k] = r.raw_articles[NthNew(r.exists_list, k)]
              /\ r.new_articles # <<>> =>
                    r.normalized_articles = normalize_batch(r.new_articles, r.query)

\* a run that found the first of two fetched records in the cache and
\* normalized the second
C35_Witness ==
    /\ run[1].stage = "returned"
    /\ run[1].exists_list = <<TRUE, FALSE>>
    /\ run[1].result.fetched = 2
    /\ run[1].result.duplicates = 1
    /\ run[1].result.new_articles = 1
    /\ run[1].new_articles = <<run[1].raw_articles[2]>>

(***************************************************************************)
(* C36: in every success result stored is the number of articles the run   *)
(* wrote to the normalized bucket, and a run that wrote nothing reports    *)
(* stored = 0.  A run without storage configured skips the write and       *)
(* reports the number of normalized articles all the same.                 *)
(***************************************************************************)
C36_StoredIsWritten ==
    \A w \in Workers :
      LET r == run[w]
          written == IF r.normWrites = 1 THEN Len(r.normalized_articles) ELSE 0
      IN  r.stage = "returned"
          => /\ r.result.stored = written
             /\ r.normPuts = 0 => r.result.stored = 0

(***************************************************************************)
(* C37: the duplicate check leaves the cache as it is, and the only keys a *)
(* run writes to the cache are hashes it classified as new: a hash whose   *)
(* existence flag is True is not in the run's batch_mark_processed call,   *)
(* so its expiry is not renewed.                                           *)
(***************************************************************************)
C37_CheckReadsMarkWritesNew ==
    [][\A w \in Workers :
         LET r == run'[w] IN
         /\ r.checkCalls # run[w].checkCalls => cache' = cache
         /\ cache' # cache =>
              \E v \in Workers :
                 /\ run'[v].markCalls = run[v].markCalls + 1
                 /\ DOMAIN cache' \ DOMAIN cache \subseteq Range(run'[v].markArg)
         /\ r.markCalls = 1 =>
              /\ Range(r.markArg) \subseteq Range(r.new_hashes)
              /\ \A i \in 1..Len(r.exists_list) :
                    r.exists_list[i] => r.article_hashes[i] \notin Range(r.markArg)]_vars

\* a run found the first of its two records in the cache and marked only
\* the second
C37_Witness ==
    /\ run[1].exists_list = <<TRUE, FALSE>>
    /\ run[1].markCalls = 1
    /\ run[1].markArg = <<run[1].article_hashes[2]>>
    /\ run[1].article_hashes[1] \in DOMAIN cache
    /\ run[1].article_hashes[2] \in DOMAIN cache

(***************************************************************************)
(* C38: every run of process_single_message ends, in exactly one of four   *)
(* ways: the zero-result success, the all-duplicate success, the full      *)
(* success, or a raised error; on the way each of fetch, check (with the   *)
(* normalization), raw write, normalized write and mark is done at most    *)
(* once and in this order; no stage is ever entered again.                 *)
(***************************************************************************)
StageRank(stage) ==
    CASE stage = "fetch" -> 1
      [] stage = "check" -> 2
      [] stage = "store_raw" -> 3
      [] stage = "store_normalized" -> 4
      [] stage = "mark" -> 5
      [] stage \in {"returned", "raised"} -> 6
      [] OTHER -> 0

Outcomes(r) ==
    {o \in {"zero", "duplicates", "full", "raised"} :
        \/ /\ o = "zero"
           /\ r.stage = "returned"
           /\ r.result = ZeroResult(r)
           /\ r.raw_articles = <<>>
           /\ r.checkCalls = 0 /\ r.rawWrites = 0 /\ r.normAttempts = 0 /\ r.markCalls = 0
        \/ /\ o = "duplicates"
           /\ r.stage = "returned"
           /\ r.result.message = "All articles were duplicates (already processed)"
           /\ r.raw_articles # <<>> /\ r.new_articles = <<>>
           /\ r.rawWrites = 0 /\ r.normAttempts = 0 /\ r.markCalls = 0
        \/ /\ o = "full"
           /\ r.stage = "returned"
           /\ r.result = FullResult(r)
           /\ r.new_articles # <<>>
        \/ /\ o = "raised"
           /\ r.stage = "raised"
           /\ r.result = NoResult
           /\ r.raisedAt # ""}

C38_OneOutcomeLinearStages ==
    /\ \A w \in Workers :
          (run[w].stage = "fetch") ~> (run[w].stage \in {"returned", "raised"})
    /\ [](\A w \in Workers :
            /\ run[w].fetchRequests <= 1
            /\ run[w].checkCalls <= 1
            /\ run[w].rawWrites <= 1
            /\ run[w].normAttempts <= 1
            /\ run[w].markCalls <= 1
            /\ run[w].stage \in {"returned", "raised"}
                  => Cardinality(Outcomes(run[w])) = 1)
    /\ [][\A w \in Workers :
            run'[w] # run[w]
            => IF run[w].stage \in {"returned", "raised"} THEN run'[w] = NoRun
               ELSE StageRank(run'[w].stage) > StageRank(run[w].stage)]_vars

\* a run went through every stage once and returned the full result
C38_Witness ==
    /\ run[1].stage = "returned"
    /\ run[1].fetchRequests = 1
    /\ run[1].checkCalls = 1
    /\ run[1].rawWrites = 1
    /\ run[1].normWrites = 1
    /\ run[1].markCalls = 1
    /\ Outcomes(run[1]) = {"full"}

=============================================================================
